---- MODULE Spec2Model ----
(***************************************************************************)
(* A model of the schema rewrite pipeline of tools/proto-convert:          *)
(* SchemaModifier.modify and the rules it applies, run over OpenAPI        *)
(* documents drawn from a bounded family (Spec); the rules on their own    *)
(* (SpecRule); the schema walk of utils/SpecificationVisitor (SpecVisitor);*)
(* and the single-map, property-injection and enum rules of the rewrite    *)
(* (SpecSingleMap, SpecReconstruct, SpecEnum).                             *)
(*                                                                         *)
(* A schema node is a function from its keys to their values: a JS object  *)
(* with the absent keys left out of the DOMAIN.  Strings are strings,      *)
(* arrays are sequences, `properties` is a function from property names to *)
(* nodes.  Values that are not objects (true, undefined) are the records   *)
(* TrueLit and Undefined.  Objects are unordered here: where the source    *)
(* depends on key order (JSON.stringify, for..in) the model uses one       *)
(* canonical order of the keys.                                            *)
(***************************************************************************)
EXTENDS Integers, Sequences, FiniteSets, TLC

VARIABLES doc, input, first, pc, queue, run, visit, stack, call, hooked

vars == <<doc, input, first, pc, queue, run, visit, stack, call, hooked>>

(***************************************************************************)
(* Bounds of the document family.                                          *)
(***************************************************************************)
MaxWrap == 1

(***************************************************************************)
(* JS object primitives.                                                   *)
(***************************************************************************)
TrueLit == [literal |-> "true"]

Undefined == [literal |-> "undefined"]

Null == [literal |-> "null"]

(* A rule that raises a TypeError, with the schema as it had left it.      *)
Throw(schema) == [literal |-> "TypeError", schema |-> schema]

Has(s, k) == k \in DOMAIN s

Thrown(v) == Has(v, "literal") /\ v["literal"] = "TypeError"

TypeofObject(v) == ~Has(v, "literal")

Del(s, K) == [k \in DOMAIN s \ K |-> s[k]]

ObjectAssign(target, source) ==
    [k \in DOMAIN target \cup DOMAIN source |->
        IF k \in DOMAIN source THEN source[k] ELSE target[k]]

Put(s, k, v) == ObjectAssign(s, k :> v)

TypeIs(s, t) == Has(s, "type") /\ s["type"] = t

NumIs(s, k, n) == Has(s, k) /\ s[k] = n

RECURSIVE SetToSeq(_)
SetToSeq(S) ==
    IF S = {} THEN <<>>
    ELSE LET k == CHOOSE e \in S : TRUE IN <<k>> \o SetToSeq(S \ {k})

Keys(s) == SetToSeq(DOMAIN s)

Includes(hay, needle) ==
    \E i \in 1..(Len(hay) - Len(needle) + 1) :
        SubSeq(hay, i, i + Len(needle) - 1) = needle

RemoveAt(seq, i) == SubSeq(seq, 1, i - 1) \o SubSeq(seq, i + 1, Len(seq))

RECURSIVE GetAt(_, _)
GetAt(node, path) ==
    IF Len(path) = 0 THEN node ELSE GetAt(node[Head(path)], Tail(path))

RECURSIVE SetAt(_, _, _)
SetAt(node, path, v) ==
    IF Len(path) = 0 THEN v
    ELSE [node EXCEPT ![Head(path)] = SetAt(@, Tail(path), v)]

(***************************************************************************)
(* JSON.stringify, with the keys of an object in the canonical order.      *)
(***************************************************************************)
StringKeys == {"type", "$ref", "const", "title", "x-oneOf-annotation"}

NumberKeys == {"minProperties", "maxProperties"}

BooleanKeys == {"x-oneOf-model", "x-oneOf-property"}

NodeKeys == {"items", "additionalProperties", "propertyNames"}

NodeArrayKeys == {"oneOf", "allOf", "anyOf"}

StringArrayKeys == {"enum", "required"}

Quote(str) == "\"" \o str \o "\""

NumStr(n) ==
    CASE n = 0 -> "0" [] n = 1 -> "1" [] n = 2 -> "2" [] n = 3 -> "3"
      [] OTHER -> "9"

RECURSIVE Join(_, _)
Join(strs, sep) ==
    IF Len(strs) = 0 THEN ""
    ELSE IF Len(strs) = 1 THEN strs[1]
    ELSE strs[1] \o sep \o Join(Tail(strs), sep)

JoinStrings(strs) == Join(strs, ",")

RECURSIVE JSONstringify(_)
JSONstringify(v) ==
    IF Has(v, "literal") THEN v["literal"]
    ELSE LET ks == Keys(v)
             Value(k) ==
                 IF k \in StringKeys THEN Quote(v[k])
                 ELSE IF k \in NumberKeys THEN NumStr(v[k])
                 ELSE IF k \in BooleanKeys THEN (IF v[k] THEN "true" ELSE "false")
                 ELSE IF k \in NodeKeys THEN JSONstringify(v[k])
                 ELSE IF k \in NodeArrayKeys THEN
                     "[" \o JoinStrings([i \in DOMAIN v[k] |-> JSONstringify(v[k][i])]) \o "]"
                 ELSE IF k \in StringArrayKeys THEN
                     "[" \o JoinStrings([i \in DOMAIN v[k] |-> Quote(v[k][i])]) \o "]"
                 ELSE LET ps == Keys(v[k]) IN
                     "{" \o JoinStrings([i \in DOMAIN ps |->
                            Quote(ps[i]) \o ":" \o JSONstringify(v[k][ps[i]])]) \o "}"
         IN "{" \o JoinStrings([i \in DOMAIN ks |-> Quote(ks[i]) \o ":" \o Value(ks[i])]) \o "}"

(***************************************************************************)
(* utils/helper: resolveObj and compressMultipleUnderscores.               *)
(***************************************************************************)
RefPrefix == "#/components/schemas/"

Ref(n) == "$ref" :> (RefPrefix \o n)

RefName(r) == SubSeq(r, Len(RefPrefix) + 1, Len(r))

resolveObj(obj, root) ==
    IF ~Has(obj, "$ref") THEN obj
    ELSE IF SubSeq(obj["$ref"], 1, Len(RefPrefix)) = RefPrefix
            /\ RefName(obj["$ref"]) \in DOMAIN root
         THEN root[RefName(obj["$ref"])]
         ELSE Undefined

RECURSIVE compressMultipleUnderscores(_)
compressMultipleUnderscores(str) ==
    IF Len(str) < 2 THEN str
    ELSE IF SubSeq(str, 1, 2) = "__"
         THEN compressMultipleUnderscores(SubSeq(str, 2, Len(str)))
         ELSE SubSeq(str, 1, 1) \o compressMultipleUnderscores(SubSeq(str, 2, Len(str)))

(***************************************************************************)
(* SchemaModifier: the per-node rules.                                     *)
(***************************************************************************)
isReferenceObject(schema) == TypeofObject(schema) /\ Has(schema, "$ref")

isEmptyObjectSchema(schema) ==
    /\ TypeIs(schema, "object")
    /\ ~Has(schema, "properties")
    /\ ~Has(schema, "allOf")
    /\ ~Has(schema, "anyOf")
    /\ ~Has(schema, "oneOf")
    /\ ~Has(schema, "$ref")

handleAdditionalPropertiesUndefined(schema) ==
    IF Has(schema, "additionalProperties") /\ schema["additionalProperties"] = Null
    THEN Throw(schema)
    ELSE
    IF /\ Has(schema, "additionalProperties")
       /\ \/ schema["additionalProperties"] = TrueLit
          \/ /\ TypeofObject(schema["additionalProperties"])
             /\ isEmptyObjectSchema(schema["additionalProperties"])
    THEN Del(Put(schema, "type", "object"), {"additionalProperties"})
    ELSE schema

ConstItem(item, schemaName) ==
    IF TypeofObject(item) /\ ~Has(item, "$ref") /\ TypeIs(item, "string") /\ Has(item, "const")
    THEN Del(ObjectAssign(item,
                 [type |-> "boolean",
                  title |-> compressMultipleUnderscores(schemaName \o "_" \o item["const"])]),
             {"const"})
    ELSE item

handleOneOfConstEveryString(schema, schemaName) ==
    IF Has(schema, "oneOf")
    THEN [schema EXCEPT !["oneOf"] =
             [i \in DOMAIN @ |->
                 IF TypeofObject(@[i]) /\ TypeIs(@[i], "string")
                 THEN ConstItem(Put(@[i], "const", "string"), schemaName)
                 ELSE @[i]]]
    ELSE schema

handleOneOfConst(schema, schemaName) ==
    IF Has(schema, "oneOf")
    THEN [schema EXCEPT !["oneOf"] = [i \in DOMAIN @ |-> ConstItem(@[i], schemaName)]]
    ELSE schema

isArraySchemaObject(schema) ==
    TypeofObject(schema) /\ TypeIs(schema, "array") /\ Has(schema, "items")

Shape(s) == JSONstringify([k \in DOMAIN s \cap {"type", "$ref", "additionalProperties"} |-> s[k]])

collapseSingleItemOneOf(schema) ==
    IF Has(schema, "oneOf") /\ Len(schema["oneOf"]) = 1
    THEN IF TypeofObject(schema["oneOf"][1])
         THEN Del(ObjectAssign(schema, schema["oneOf"][1]), {"oneOf"})
         ELSE Del(schema, {"oneOf"})
    ELSE schema

RECURSIVE SpliceLoop(_, _, _)
SpliceLoop(oneOfs, i, arraySet) ==
    IF i > Len(oneOfs) THEN [oneOfs |-> oneOfs, thrown |-> FALSE]
    ELSE IF oneOfs[i] \in {Null, Undefined} THEN [oneOfs |-> oneOfs, thrown |-> TRUE]
    ELSE IF Shape(oneOfs[i]) \in arraySet
         THEN LET deleteIndx == CHOOSE j \in 1..Len(oneOfs) :
                                   /\ oneOfs[j] = oneOfs[i]
                                   /\ \A h \in 1..(j - 1) : oneOfs[h] # oneOfs[i]
              IN SpliceLoop(RemoveAt(oneOfs, deleteIndx), i + 1, arraySet)
         ELSE SpliceLoop(oneOfs, i + 1, arraySet)

(* collapseOrMergeOneOfArray without its closing collapseSingleItemOneOf.   *)
collapseOrMergeOneOfArrayKeepsOneOf(schema) ==
    IF ~Has(schema, "$ref") /\ Has(schema, "oneOf")
    THEN LET oneOfs == schema["oneOf"]
             arrays == {j \in DOMAIN oneOfs : isArraySchemaObject(oneOfs[j])}
             arraySet == {Shape(oneOfs[i]["items"]) : i \in arrays}
             spliced == SpliceLoop(oneOfs, 1, arraySet)
         IN IF \E i \in arrays : oneOfs[i]["items"] \in {Null, Undefined}
            THEN Throw(schema)
            ELSE IF spliced.thrown
            THEN Throw([schema EXCEPT !["oneOf"] = spliced.oneOfs])
            ELSE [schema EXCEPT !["oneOf"] = spliced.oneOfs]
    ELSE schema

collapseOrMergeOneOfArray(schema) ==
    IF ~Has(schema, "$ref") /\ Has(schema, "oneOf")
    THEN LET oneOfs == schema["oneOf"]
             arrays == {j \in DOMAIN oneOfs : isArraySchemaObject(oneOfs[j])}
             arraySet == {Shape(oneOfs[i]["items"]) : i \in arrays}
             spliced == SpliceLoop(oneOfs, 1, arraySet)
         IN IF \E i \in arrays : oneOfs[i]["items"] \in {Null, Undefined}
            THEN Throw(schema)
            ELSE IF spliced.thrown
            THEN Throw([schema EXCEPT !["oneOf"] = spliced.oneOfs])
            ELSE collapseSingleItemOneOf([schema EXCEPT !["oneOf"] = spliced.oneOfs])
    ELSE schema

cloneAdditionalPropertySchema ==
    [type |-> "object", properties |-> [field |-> [type |-> "string"]]]

handleMinMaxProperties(schema) ==
    IF /\ TypeIs(schema, "object")
       /\ NumIs(schema, "minProperties", 1)
       /\ NumIs(schema, "maxProperties", 1)
       /\ Has(schema, "properties")
    THEN LET ks == Keys(schema["properties"])
             annotation == Join(ks, ", ") \o " are mutual exclusive"
             Mark(propSchema) ==
                 IF TypeofObject(propSchema)
                 THEN ObjectAssign(propSchema,
                          ("x-oneOf-property" :> TRUE) @@ ("x-oneOf-annotation" :> annotation))
                 ELSE propSchema
         IN [Put(schema, "x-oneOf-model", TRUE) EXCEPT
                !["properties"] = [k \in DOMAIN @ |-> Mark(@[k])]]
    ELSE schema

(* transformPropertyNamesSchema on the node at `path` of the document     *)
(* `root`: the rule reads and patches the resolved target through root.    *)
transformPropertyNamesSchema(root, path) ==
    LET schema == GetAt(root, path) IN
    IF /\ TypeIs(schema, "object")
       /\ Has(schema, "additionalProperties")
       /\ TypeofObject(schema["additionalProperties"])
       /\ NumIs(schema, "minProperties", 1)
       /\ NumIs(schema, "maxProperties", 1)
    THEN LET ap == schema["additionalProperties"]
             complexObject == resolveObj(ap, root)
             pushed ==
                 IF TypeofObject(complexObject) /\ Has(complexObject, "allOf")
                 THEN IF Has(ap, "$ref")
                      THEN [root EXCEPT ![RefName(ap["$ref"])]["allOf"] =
                                Append(@, cloneAdditionalPropertySchema)]
                      ELSE SetAt(root, path \o <<"additionalProperties", "allOf">>,
                                 Append(ap["allOf"], cloneAdditionalPropertySchema))
                 ELSE root
             schema1 == GetAt(pushed, path)
             assigned ==
                 IF TypeofObject(complexObject) /\ Has(complexObject, "allOf")
                 THEN ObjectAssign(schema1, schema1["additionalProperties"])
                 ELSE IF /\ TypeofObject(complexObject)
                         /\ TypeIs(complexObject, "object")
                         /\ Has(complexObject, "properties")
                 THEN ObjectAssign(schema1, schema1["additionalProperties"])
                 ELSE IF TypeofObject(complexObject) /\ TypeIs(complexObject, "integer")
                 THEN ObjectAssign(schema1,
                          [cloneAdditionalPropertySchema EXCEPT
                              !["properties"] = @ @@ ("value" :> complexObject)])
                 ELSE schema1
         IN SetAt(pushed, path,
                  Del(assigned, {"additionalProperties", "minProperties",
                                 "maxProperties", "propertyNames"}))
    ELSE root

PropMatches(propSchema, titleContent) ==
    \/ Has(propSchema, "$ref") /\ Includes(titleContent, propSchema["$ref"])
    \/ Has(propSchema, "type") /\ Includes(titleContent, propSchema["type"])

tryCollapseIfMatchingAnyTitle(root, schema, indexOfSimple) ==
    LET maybeSimple == schema["oneOf"][indexOfSimple + 1]
        maybeComplex == schema["oneOf"][2 - indexOfSimple]
    IN IF Has(maybeSimple, "title") /\ TypeofObject(resolveObj(maybeComplex, root))
       THEN ObjectAssign(Del(schema, {"oneOf"}), maybeComplex)
       ELSE Undefined

(* tryCollapseIfMatching: the collapsed schema, or Undefined for `false`. *)
tryCollapseIfMatching(root, schema, indexOfSimple) ==
    LET maybeSimple == schema["oneOf"][indexOfSimple + 1]
        maybeComplex == schema["oneOf"][2 - indexOfSimple]
        titleContent == JSONstringify(maybeSimple)
        nameStr == maybeSimple["title"]
        complexObject == resolveObj(maybeComplex, root)
        foundMath ==
            IF Has(complexObject, "allOf")
            THEN \E i \in DOMAIN complexObject["allOf"] :
                    LET subObject == resolveObj(complexObject["allOf"][i], root) IN
                    /\ TypeofObject(subObject)
                    /\ Has(subObject, "properties")
                    /\ nameStr \in DOMAIN subObject["properties"]
                    /\ PropMatches(subObject["properties"][nameStr], titleContent)
            ELSE /\ TypeIs(complexObject, "object")
                 /\ Has(complexObject, "properties")
                 /\ nameStr \in DOMAIN complexObject["properties"]
                 /\ Has(complexObject["properties"][nameStr], "$ref")
                 /\ PropMatches(complexObject["properties"][nameStr], titleContent)
    IN IF maybeSimple \in {Null, Undefined} THEN Throw(schema)
       ELSE IF ~Has(maybeSimple, "title") THEN Undefined
       ELSE IF ~TypeofObject(complexObject) THEN Undefined
       ELSE IF foundMath
            THEN ObjectAssign(Del(schema, {"oneOf"}), maybeComplex)
            ELSE Undefined

CollapseOneOfObjectPropContainsTitleSchema(root, path) ==
    LET schema == GetAt(root, path) IN
    IF ~Has(schema, "oneOf") \/ Len(schema["oneOf"]) # 2 THEN root
    ELSE LET r0 == tryCollapseIfMatching(root, schema, 0)
             r1 == tryCollapseIfMatching(root, schema, 1)
         IN IF Thrown(r0) THEN [literal |-> "TypeError", spec |-> root]
            ELSE IF TypeofObject(r0) THEN SetAt(root, path, r0)
            ELSE IF Thrown(r1) THEN [literal |-> "TypeError", spec |-> root]
            ELSE IF TypeofObject(r1) THEN SetAt(root, path, r1)
            ELSE root

(***************************************************************************)
(* utils/OpenApiTraverser: traverse, as the sequence of hook calls of one  *)
(* walk, children before the node.                                         *)
(***************************************************************************)
CompOrder == <<"A", "T", "B", "QueryContainer">>

Visit(p, h, n) == [path |-> p, hook |-> h, name |-> n]

additionalPropertiesVisitHooked(path, parent) ==
    <<Visit(path, "onSchemaProperty", parent)>>

(* An additionalProperties value has no property name: no hook call.       *)
additionalPropertiesVisit(path, parent) == <<>>

RECURSIVE traverseSchema(_, _, _)
traverseSchema(schema, path, parent) ==
    IF ~TypeofObject(schema) \/ Has(schema, "$ref") THEN <<>>
    ELSE LET Child(c, p, h) ==
                 traverseSchema(c, p, parent)
                    \o (IF TypeofObject(c) /\ ~Has(c, "$ref")
                        THEN <<Visit(p, h, parent)>> ELSE <<>>)
             Members(key) ==
                 IF Has(schema, key)
                 THEN LET RECURSIVE From(_)
                          From(i) == IF i > Len(schema[key]) THEN <<>>
                                     ELSE Child(schema[key][i], path \o <<key, i>>, "onSchema")
                                            \o From(i + 1)
                      IN From(1)
                 ELSE <<>>
             Props ==
                 IF Has(schema, "properties")
                 THEN LET ks == Keys(schema["properties"])
                          RECURSIVE From(_)
                          From(i) == IF i > Len(ks) THEN <<>>
                                     ELSE Child(schema["properties"][ks[i]],
                                                path \o <<"properties", ks[i]>>,
                                                "onSchemaProperty")
                                            \o From(i + 1)
                      IN From(1)
                 ELSE <<>>
         IN (IF TypeIs(schema, "array") /\ Has(schema, "items")
             THEN Child(schema["items"], path \o <<"items">>, "onSchemaProperty")
             ELSE <<>>)
            \o (IF Has(schema, "additionalProperties")
                THEN traverseSchema(schema["additionalProperties"],
                                    path \o <<"additionalProperties">>, parent)
                       \o (IF TypeofObject(schema["additionalProperties"])
                              /\ ~Has(schema["additionalProperties"], "$ref")
                           THEN additionalPropertiesVisit(
                                    path \o <<"additionalProperties">>, parent)
                           ELSE <<>>)
                ELSE <<>>)
            \o Props \o Members("allOf") \o Members("anyOf") \o Members("oneOf")

traverse(spec) ==
    LET RECURSIVE From(_)
        From(i) == IF i > Len(CompOrder) THEN <<>>
                   ELSE (IF CompOrder[i] \in DOMAIN spec
                         THEN traverseSchema(spec[CompOrder[i]], <<CompOrder[i]>>, CompOrder[i])
                                \o <<Visit(<<CompOrder[i]>>, "onSchema", CompOrder[i])>>
                         ELSE <<>>)
                        \o From(i + 1)
    IN From(1)

(***************************************************************************)
(* SchemaModifier.modify: the callbacks of its three traversals.           *)
(***************************************************************************)
(* A callback that a rule's TypeError ends: the document as it is then.     *)
Raise(spec, path, thrown) ==
    [literal |-> "TypeError", spec |-> SetAt(spec, path, thrown["schema"])]

FirstCallbacks(spec, v) ==
    LET schema == GetAt(spec, v.path) IN
    IF v.hook = "onSchema"
    THEN IF isReferenceObject(schema) THEN spec
         ELSE LET merged == collapseOrMergeOneOfArray(handleOneOfConst(schema, v.name))
                  plain == handleAdditionalPropertiesUndefined(merged)
              IN IF Thrown(merged) THEN Raise(spec, v.path, merged)
                 ELSE IF Thrown(plain) THEN Raise(spec, v.path, plain)
                 ELSE CollapseOneOfObjectPropContainsTitleSchema(
                          SetAt(spec, v.path, plain), v.path)
    ELSE LET plain == handleAdditionalPropertiesUndefined(schema)
             merged == collapseOrMergeOneOfArray(plain)
         IN IF Thrown(plain) THEN Raise(spec, v.path, plain)
            ELSE IF Thrown(merged) THEN Raise(spec, v.path, merged)
            ELSE SetAt(spec, v.path, merged)

SecondCallbacks(spec, v) ==
    LET schema == GetAt(spec, v.path) IN
    IF v.hook = "onSchema" /\ isReferenceObject(schema) THEN spec
    ELSE transformPropertyNamesSchema(spec, v.path)

ThirdCallbacks(spec, v) ==
    LET schema == GetAt(spec, v.path) IN
    IF v.hook = "onSchema" /\ ~isReferenceObject(schema)
    THEN SetAt(spec, v.path, handleMinMaxProperties(schema))
    ELSE spec

(***************************************************************************)
(* The bounded family of documents.                                        *)
(***************************************************************************)
String == [type |-> "string"]

Integer == [type |-> "integer"]

Boolean == [type |-> "boolean"]

Obj == [type |-> "object", properties |-> [id |-> String]]

Arr(s) == [type |-> "array", items |-> s]

OneOf(members) == [oneOf |-> members]

Const(t, c) == [type |-> t, const |-> c]

Titled(s, t) == Put(s, "title", t)

SingleMap(v) ==
    [type |-> "object", additionalProperties |-> v, minProperties |-> 1, maxProperties |-> 1]

InProp(s) == [type |-> "object", properties |-> [p |-> s]]

InItems(s) == Arr(s)

InAdditional(s) == [type |-> "object", additionalProperties |-> s]

InAllOf(s) == [allOf |-> <<s, Obj>>]

BaseNodes ==
    { String,
      SingleMap(Ref("T")),
      SingleMap(Ref("Missing")),
      Put(SingleMap(Ref("T")), "propertyNames", String),
      SingleMap(Integer),
      OneOf(<<String, Arr(String)>>),
      OneOf(<<Arr(String), String>>),
      OneOf(<<Ref("T"), Arr(Ref("T"))>>),
      OneOf(<<Const("string", "a"), Const("string", "b")>>),
      OneOf(<<Const("integer", "1"), String>>),
      OneOf(<<Const("string", "a"), Arr(String)>>),
      OneOf(<<Arr(Integer), Const("integer", "1")>>),
      ObjectAssign(OneOf(<<String, Arr(String)>>), Ref("T")),
      OneOf(<<String, Boolean, Arr(String)>>),
      OneOf(<<String>>),
      [type |-> "string", enum |-> <<"a", "b", "A">>],
      OneOf(<<Null, String>>),
      OneOf(<<String, Null, Arr(String)>>),
      OneOf(<<String, Arr(Null)>>),
      [type |-> "object", additionalProperties |-> Null],
      OneOf(<<>>),
      [allOf |-> <<String>>],
      [anyOf |-> <<Ref("T")>>],
      [additionalProperties |-> TrueLit],
      [type |-> "object", additionalProperties |-> [type |-> "object"]],
      [type |-> "object", properties |-> [k |-> String], additionalProperties |-> TrueLit],
      OneOf(<<Titled(String, "field"), Ref("T")>>),
      OneOf(<<Ref("Missing"), Titled(String, "field")>>),
      OneOf(<<Titled(Ref("T"), "id"), [type |-> "object", properties |-> [id |-> Ref("T")]]>>),
      [type |-> "object", maxProperties |-> 1, properties |-> [x |-> String, y |-> Integer]],
      [type |-> "object", minProperties |-> 1, maxProperties |-> 1, properties |-> [x |-> String]] }

RECURSIVE Wrapped(_)
Wrapped(n) ==
    IF n = 0 THEN BaseNodes
    ELSE LET W == Wrapped(n - 1) IN
         W \cup {InProp(s) : s \in W} \cup {InItems(s) : s \in W}
           \cup {InAdditional(s) : s \in W} \cup {InAllOf(s) : s \in W}

TargetNodes ==
    { String, Integer, Obj,
      [allOf |-> <<Obj, [type |-> "object", properties |-> [name |-> String]]>>],
      [type |-> "object", properties |-> [field |-> String]] }

SecondNodes ==
    { String,
      Ref("T"),
      SingleMap(Ref("T")),
      InProp(SingleMap(Ref("T"))),
      OneOf(<<Titled(String, "field"), Ref("T")>>) }

ExemptDocs ==
    { [A |-> String, T |-> t, QueryContainer |-> InProp(SingleMap(Ref("T")))] : t \in TargetNodes }

Docs ==
    { [A |-> a, T |-> t, B |-> b] : a \in Wrapped(MaxWrap), t \in TargetNodes, b \in SecondNodes }
        \cup ExemptDocs

(***************************************************************************)
(* The pipeline as a state machine.  modify is three traversals; `queue`   *)
(* holds the hook calls the running traversal still has to make, and each  *)
(* action is one call of a callback of modify.  The calls of a traversal   *)
(* are fixed when it starts: a callback rewrites the node it is handed,    *)
(* whose children were handed over before it, or appends the {field}       *)
(* schema to the allOf of another component, which no callback of that     *)
(* traversal changes.  A caller may call modify again on the document it   *)
(* returned.                                                               *)
(***************************************************************************)
Callbacks(n, spec) ==
    IF n = "third"
    THEN SelectSeq(traverse(spec), LAMBDA v : v.hook = "onSchema")
    ELSE traverse(spec)

Init ==
    /\ doc \in Docs
    /\ input = doc
    /\ first = doc
    /\ pc = "first"
    /\ queue = Callbacks("first", doc)
    /\ run = 1
    /\ visit = {}
    /\ stack = <<>>
    /\ call = Undefined
    /\ hooked = <<>>

Advance(result, following) ==
    /\ doc' = IF Thrown(result) THEN result["spec"] ELSE result
    /\ IF Thrown(result)
       THEN /\ pc' = "thrown"
            /\ queue' = <<>>
            /\ first' = first
       ELSE IF Len(queue) > 1
       THEN /\ queue' = Tail(queue)
            /\ pc' = pc
            /\ first' = first
       ELSE /\ pc' = following
            /\ queue' = IF following = "returned" THEN <<>> ELSE Callbacks(following, result)
            /\ first' = IF following = "returned" /\ run = 1 THEN result ELSE first
    /\ UNCHANGED <<input, run, visit, stack, call, hooked>>

FirstOnSchema ==
    /\ pc = "first"
    /\ Head(queue).hook = "onSchema"
    /\ Advance(FirstCallbacks(doc, Head(queue)), "second")

FirstOnSchemaProperty ==
    /\ pc = "first"
    /\ Head(queue).hook = "onSchemaProperty"
    /\ Advance(FirstCallbacks(doc, Head(queue)), "second")

SecondOnSchema ==
    /\ pc = "second"
    /\ Head(queue).hook = "onSchema"
    /\ Advance(SecondCallbacks(doc, Head(queue)), "third")

SecondOnSchemaProperty ==
    /\ pc = "second"
    /\ Head(queue).hook = "onSchemaProperty"
    /\ Advance(SecondCallbacks(doc, Head(queue)), "third")

ThirdOnSchema ==
    /\ pc = "third"
    /\ Advance(ThirdCallbacks(doc, Head(queue)), "returned")

ModifyAgain ==
    /\ pc = "returned"
    /\ run = 1
    /\ pc' = "first"
    /\ queue' = Callbacks("first", doc)
    /\ run' = 2
    /\ UNCHANGED <<doc, input, first, visit, stack, call, hooked>>

Next ==
    \/ FirstOnSchema
    \/ FirstOnSchemaProperty
    \/ SecondOnSchema
    \/ SecondOnSchemaProperty
    \/ ThirdOnSchema
    \/ ModifyAgain

Spec == Init /\ [][Next]_vars

Returned == pc = "returned" /\ run = 1

(***************************************************************************)
(* Every schema node of a document, with the place it sits at: a named     *)
(* component, a composite member, a property, array items or an            *)
(* additionalProperties value.                                             *)
(***************************************************************************)
RECURSIVE Concat(_)
Concat(ss) == IF Len(ss) = 0 THEN <<>> ELSE Head(ss) \o Concat(Tail(ss))

RECURSIVE SchemaNodes(_, _, _)
SchemaNodes(schema, path, place) ==
    IF ~TypeofObject(schema) THEN <<>>
    ELSE LET One(k) ==
                 IF Has(schema, k) THEN SchemaNodes(schema[k], path \o <<k>>, k) ELSE <<>>
             Many(k) ==
                 IF Has(schema, k)
                 THEN Concat([i \in DOMAIN schema[k] |->
                                 SchemaNodes(schema[k][i], path \o <<k, i>>, "member")])
                 ELSE <<>>
             Props ==
                 IF Has(schema, "properties")
                 THEN LET ks == Keys(schema["properties"]) IN
                      Concat([i \in DOMAIN ks |->
                                 SchemaNodes(schema["properties"][ks[i]],
                                             path \o <<"properties", ks[i]>>, "property")])
                 ELSE <<>>
         IN <<[path |-> path, place |-> place]>>
              \o One("items") \o One("additionalProperties") \o Props
              \o Many("allOf") \o Many("anyOf") \o Many("oneOf")

AllNodes(spec) ==
    Concat([i \in DOMAIN CompOrder |->
               IF CompOrder[i] \in DOMAIN spec
               THEN SchemaNodes(spec[CompOrder[i]], <<CompOrder[i]>>, "component")
               ELSE <<>>])

RECURSIVE Exists(_, _)
Exists(node, path) ==
    \/ Len(path) = 0
    \/ /\ Head(path) \in DOMAIN node
       /\ Exists(node[Head(path)], Tail(path))

(* The nodes of the document modify returned satisfy P. *)
EveryNode(spec, P(_)) ==
    \A i \in DOMAIN AllNodes(spec) : P(GetAt(spec, AllNodes(spec)[i].path))

(***************************************************************************)
(* C1: modify is idempotent: a second modify on the document the first     *)
(* modify returned rewrites no node and extends no component.              *)
(***************************************************************************)
C1_ModifyIdempotent == (pc = "returned" /\ run = 2) => doc = first

(***************************************************************************)
(* C2: after modify, no schema node of the document has                    *)
(* additionalProperties equal to true or to an empty object schema.        *)
(***************************************************************************)
OpenAdditionalProperties(s) ==
    /\ Has(s, "additionalProperties")
    /\ \/ s["additionalProperties"] = TrueLit
       \/ LET ap == s["additionalProperties"] IN
          /\ TypeofObject(ap)
          /\ TypeIs(ap, "object")
          /\ DOMAIN ap \cap {"properties", "allOf", "anyOf", "oneOf", "$ref"} = {}

C2_NoOpenAdditionalProperties ==
    Returned => EveryNode(doc, LAMBDA s : ~OpenAdditionalProperties(s))

(***************************************************************************)
(* C3: after modify, no schema node has a oneOf, anyOf or allOf of length  *)
(* exactly 1.                                                              *)
(***************************************************************************)
SingleComposite(s) == \E c \in NodeArrayKeys : Has(s, c) /\ Len(s[c]) = 1

C3_NoSingleComposite == Returned => EveryNode(doc, LAMBDA s : ~SingleComposite(s))

(***************************************************************************)
(* C4: two nodes of the single-map pattern over the same type T leave      *)
(* exactly one generated component, both nodes are references to it, and   *)
(* T itself is patched at most once.                                       *)
(***************************************************************************)
SingleMapOf(s, t) ==
    /\ TypeIs(s, "object")
    /\ NumIs(s, "minProperties", 1)
    /\ NumIs(s, "maxProperties", 1)
    /\ Has(s, "additionalProperties")
    /\ s["additionalProperties"] = Ref(t)

Sites(spec, t) ==
    SelectSeq(AllNodes(spec),
              LAMBDA n : n.place # "additionalProperties" /\ SingleMapOf(GetAt(spec, n.path), t))

C4_SingleMapDedup ==
    (Returned /\ Len(Sites(input, "T")) >= 2) =>
        /\ \E g \in DOMAIN doc \ DOMAIN input :
              /\ DOMAIN doc \ DOMAIN input = {g}
              /\ \A i \in DOMAIN Sites(input, "T") :
                    LET p == Sites(input, "T")[i].path IN
                    Exists(doc, p) /\ GetAt(doc, p) = Ref(g)
        /\ Has(input["T"], "allOf") =>
              Len(doc["T"]["allOf"]) <= Len(input["T"]["allOf"]) + 1

(***************************************************************************)
(* C5: the single-map rule replaces a node of the pattern over T by a      *)
(* reference to the component TSingleMap, an object with required          *)
(* ['field', 't'] whose field is a string (or the propertyNames schema)    *)
(* and whose t references T.                                               *)
(***************************************************************************)
C5_SingleMapMaterialized ==
    (pc = "second" /\ SingleMapOf(GetAt(doc, Head(queue).path), "T")) =>
        LET path == Head(queue).path
            node == GetAt(doc, path)
            out == transformPropertyNamesSchema(doc, path)
            keyType == IF Has(node, "propertyNames") THEN node["propertyNames"] ELSE String
        IN /\ GetAt(out, path) = Ref("TSingleMap")
           /\ "TSingleMap" \in DOMAIN out
           /\ out["TSingleMap"] =
                 [type |-> "object",
                  required |-> <<"field", "t">>,
                  properties |-> [field |-> keyType, t |-> Ref("T")]]

(***************************************************************************)
(* C6: handleOneOfConst on a schema whose oneOf has a non-reference member *)
(* with a const removes oneOf and leaves type 'string' with an enum of     *)
(* each non-reference member's const, or its type name, in source order.   *)
(***************************************************************************)
ConstMember(m) == TypeofObject(m) /\ ~Has(m, "$ref") /\ Has(m, "const")

HasConstMember(s) ==
    Has(s, "oneOf") /\ \E i \in DOMAIN s["oneOf"] : ConstMember(s["oneOf"][i])

C6_ConstFoldedToEnum ==
    (/\ pc = "first"
     /\ Head(queue).hook = "onSchema"
     /\ HasConstMember(GetAt(doc, Head(queue).path))) =>
        LET node == GetAt(doc, Head(queue).path)
            out == handleOneOfConst(node, Head(queue).name)
            members == SelectSeq(node["oneOf"], LAMBDA m : ~Has(m, "$ref"))
        IN /\ ~Has(out, "oneOf")
           /\ ~Has(out, "const")
           /\ TypeIs(out, "string")
           /\ Has(out, "enum")
           /\ out["enum"] = [i \in DOMAIN members |->
                                IF Has(members[i], "const") THEN members[i]["const"]
                                ELSE members[i]["type"]]

(***************************************************************************)
(* C7: a node, named or inline, whose oneOf is one non-array member S and  *)
(* one array member whose items have the shape of S, in either order, is   *)
(* left by modify with no oneOf, type 'array' and the array member's       *)
(* items.                                                                  *)
(***************************************************************************)
OneOrManyAt(s, a) ==
    /\ isArraySchemaObject(s["oneOf"][a])
    /\ TypeofObject(s["oneOf"][3 - a])
    /\ ~TypeIs(s["oneOf"][3 - a], "array")
    /\ Shape(s["oneOf"][3 - a]) = Shape(s["oneOf"][a]["items"])

OneOrMany(s) ==
    Has(s, "oneOf") /\ Len(s["oneOf"]) = 2 /\ \E a \in {1, 2} : OneOrManyAt(s, a)

ArrayMember(s) == s["oneOf"][CHOOSE a \in {1, 2} : OneOrManyAt(s, a)]

SingleMember(s) == s["oneOf"][3 - (CHOOSE a \in {1, 2} : OneOrManyAt(s, a))]

CollapsedToArray(p, s) ==
    /\ Exists(doc, p)
    /\ ~Has(GetAt(doc, p), "oneOf")
    /\ TypeIs(GetAt(doc, p), "array")
    /\ Has(GetAt(doc, p), "items")
    /\ GetAt(doc, p)["items"] = ArrayMember(s)["items"]

StringConst(m) == TypeIs(m, "string") /\ Has(m, "const")

C8_NoConstInOneOf ==
    Returned =>
        EveryNode(doc, LAMBDA s :
            Has(s, "oneOf") => \A i \in DOMAIN s["oneOf"] : ~Has(s["oneOf"][i], "const"))

(***************************************************************************)
(* C9: after modify, every object node with maxProperties 1 carries the    *)
(* schema-level flag and each of its properties the property-level flag;   *)
(* a node without maxProperties 1, and without an allOf member having it,  *)
(* carries no schema-level flag.                                           *)
(***************************************************************************)
MaxOne(s) == TypeofObject(s) /\ NumIs(s, "maxProperties", 1)

C9_MutualExclusivityTagged ==
    Returned =>
        EveryNode(doc, LAMBDA s :
            /\ (TypeIs(s, "object") /\ MaxOne(s)) =>
                  /\ NumIs(s, "x-oneOf-model", TRUE)
                  /\ Has(s, "properties") =>
                        \A k \in DOMAIN s["properties"] :
                            NumIs(s["properties"][k], "x-oneOf-property", TRUE)
            /\ (/\ ~MaxOne(s)
                /\ ~(Has(s, "allOf") /\ \E i \in DOMAIN s["allOf"] : MaxOne(s["allOf"][i])))
               => ~Has(s, "x-oneOf-model"))

(***************************************************************************)
(* C10: a rewrite that has to resolve a reference naming no component      *)
(* leaves its node as it was: the single-map node keeps                    *)
(* additionalProperties, minProperties, maxProperties and propertyNames,   *)
(* and the two-member oneOf keeps both members.                            *)
(***************************************************************************)
Unresolvable(s, root) == Has(s, "$ref") /\ resolveObj(s, root) = Undefined

C10_UnresolvableLeavesNode ==
    LET path == Head(queue).path
        node == GetAt(doc, path)
    IN /\ (/\ pc = "second"
           /\ TypeIs(node, "object")
           /\ NumIs(node, "minProperties", 1)
           /\ NumIs(node, "maxProperties", 1)
           /\ Has(node, "additionalProperties")
           /\ Unresolvable(node["additionalProperties"], doc))
          => transformPropertyNamesSchema(doc, path) = doc
       /\ (/\ pc = "first"
           /\ Head(queue).hook = "onSchema"
           /\ Has(node, "oneOf")
           /\ Len(node["oneOf"]) = 2
           /\ \E i \in {1, 2} : Unresolvable(node["oneOf"][i], doc))
          => CollapseOneOfObjectPropContainsTitleSchema(doc, path) = doc

(***************************************************************************)
(* C11: modify returns normally for every document: no rule raises on a    *)
(* null oneOf member, null items, null additionalProperties, a bare        *)
(* reference component or a reference to a missing component.              *)
(***************************************************************************)
C11_ModifyNeverRaises == pc # "thrown"

(***************************************************************************)
(* Recursive property injection: reconstructAdditionalPropertySchema(       *)
(* schema, visit).  One step is one invocation: the call a caller makes,   *)
(* or the call the function makes on a member of a oneOf or anyOf.  An     *)
(* invocation is named by the place `at` of the schema it is handed: the   *)
(* empty path for the caller's own argument, else the path of the member   *)
(* in the document.  The visited set holds schemas by identity: the path   *)
(* of the resolved schema.  What an invocation returns is stored where the *)
(* schema it was handed stood.                                             *)
(***************************************************************************)
MaxCalls == 2

DefaultKey == "value"

WrapPrimitive(primitive) ==
    [type |-> "object",
     properties |-> (IF Has(primitive, "title") THEN primitive["title"] ELSE DefaultKey)
                        :> primitive]

AlreadyVisitedNever(target, seen) == FALSE

AlreadyVisited(target, seen) == target \in seen

FieldConflictNever(properties) == FALSE

FieldConflict(properties) == Has(properties, "field")

ResolvedAt(schema, at) ==
    IF isReferenceObject(schema) THEN <<RefName(schema["$ref"])>> ELSE at

reconstructAdditionalPropertySchema(root, seen, schema, at) ==
    LET target == ResolvedAt(schema, at)
        resolved == resolveObj(schema, root)
        Out(r, v, res, ms, c) ==
            [root |-> r, visit |-> v, result |-> res, members |-> ms, conflict |-> c]
        Patched(p) ==
            IF isReferenceObject(schema)
            THEN Out(SetAt(root, target, p), seen \cup {target}, schema, <<>>, FALSE)
            ELSE Out(root, seen \cup {target}, p, <<>>, FALSE)
        Members(k) == [i \in DOMAIN resolved[k] |-> target \o <<k, i>>]
    IN IF resolved = Undefined THEN Out(root, seen, schema, <<>>, FALSE)
       ELSE IF AlreadyVisited(target, seen) THEN Out(root, seen, schema, <<>>, FALSE)
       ELSE IF Has(resolved, "allOf")
       THEN Patched([resolved EXCEPT !["allOf"] = Append(@, cloneAdditionalPropertySchema)])
       ELSE IF TypeIs(resolved, "object") /\ Has(resolved, "properties")
       THEN IF FieldConflict(resolved["properties"])
            THEN Out(root, seen \cup {target}, schema, <<>>, TRUE)
            ELSE Patched([resolved EXCEPT !["properties"] = Put(@, "field", String)])
       ELSE IF Has(resolved, "oneOf")
       THEN Out(root, seen \cup {target}, schema, Members("oneOf"), FALSE)
       ELSE IF Has(resolved, "anyOf")
       THEN Out(root, seen \cup {target}, schema, Members("anyOf"), FALSE)
       ELSE Out(root, seen \cup {target}, WrapPrimitive(resolved), <<>>, FALSE)

(* The documents and arguments of the calls: unions of references that     *)
(* reach themselves, directly or through another component.                *)
AnyOf(members) == [anyOf |-> members]

ReconstructDocs ==
    { [A |-> a, B |-> b, U |-> u] :
        a \in { [type |-> "object", properties |-> [a |-> String]],
                [type |-> "object", properties |-> [field |-> String, existing |-> Integer]],
                [allOf |-> <<Obj>>],
                String,
                Titled(String, "customValue") },
        b \in { [type |-> "object", properties |-> [b |-> Integer]],
                OneOf(<<Ref("U"), Ref("A")>>),
                Integer },
        u \in { OneOf(<<Ref("A"), Ref("U")>>),
                AnyOf(<<Ref("A"), Ref("B")>>),
                OneOf(<<Ref("U")>>),
                OneOf(<<String, Ref("A"), Ref("Missing")>>),
                AnyOf(<<OneOf(<<Ref("U"), Ref("B")>>), Ref("A")>>) } }

ReconstructArguments ==
    { Ref("A"), Ref("B"), Ref("U"), Ref("Missing"), Titled(String, "customValue"), Integer }

InitReconstruct ==
    /\ doc \in ReconstructDocs
    /\ input = doc
    /\ first = doc
    /\ pc = "idle"
    /\ queue = <<>>
    /\ run = 0
    /\ visit = {}
    /\ stack = <<>>
    /\ call = [schema |-> Undefined, result |-> Undefined, conflict |-> FALSE]
    /\ hooked = <<>>

(* A caller hands a schema to reconstructAdditionalPropertySchema, with    *)
(* the visited set of the pipeline run as it stands.                       *)
CallReconstruct ==
    /\ pc = "idle"
    /\ run < MaxCalls
    /\ \E s \in ReconstructArguments :
          call' = [schema |-> s, result |-> Undefined, conflict |-> FALSE]
    /\ stack' = << <<>> >>
    /\ pc' = "reconstruct"
    /\ run' = run + 1
    /\ UNCHANGED <<doc, input, first, queue, visit, hooked>>

Handed(at) == IF at = <<>> THEN call.schema ELSE GetAt(doc, at)

(* One invocation runs: the caller's, or the next pending one on a member. *)
Reconstruct ==
    /\ pc = "reconstruct"
    /\ LET at == Head(stack)
           out == reconstructAdditionalPropertySchema(doc, visit, Handed(at), at)
       IN /\ doc' = IF at = <<>> THEN out.root ELSE SetAt(out.root, at, out.result)
          /\ visit' = out.visit
          /\ stack' = out.members \o Tail(stack)
          /\ call' = [call EXCEPT !.result = IF at = <<>> THEN out.result ELSE @,
                                  !.conflict = @ \/ out.conflict]
          /\ pc' = IF out.members \o Tail(stack) = <<>> THEN "idle" ELSE "reconstruct"
    /\ UNCHANGED <<input, first, queue, run, hooked>>

NextReconstruct ==
    \/ CallReconstruct
    \/ Reconstruct

(* The function is synchronous: a pending invocation runs.                 *)
SpecReconstruct ==
    InitReconstruct /\ [][NextReconstruct]_vars /\ WF_vars(Reconstruct)

(***************************************************************************)
(* C12: reconstructAdditionalPropertySchema returns for every document,    *)
(* cyclic oneOf/anyOf references included; a resolved schema is patched    *)
(* (gains `field` or an allOf member) only by the invocation that adds it  *)
(* to the visited set, so at most once per visited set; an invocation on a *)
(* schema already visited returns the reference it was handed and changes  *)
(* nothing.                                                                *)
(***************************************************************************)
FieldPatched(old, new) ==
    \/ /\ Has(old, "allOf") /\ Has(new, "allOf")
       /\ Len(new["allOf"]) > Len(old["allOf"])
    \/ /\ Has(old, "properties") /\ Has(new, "properties")
       /\ ~Has(old["properties"], "field")
       /\ Has(new["properties"], "field")

C12_ReconstructTerminates ==
    /\ (pc = "reconstruct") ~> (pc = "idle")
    /\ [][ /\ visit \subseteq visit'
           /\ \A n \in DOMAIN doc :
                 FieldPatched(doc[n], doc'[n]) => (<<n>> \notin visit /\ <<n>> \in visit')
           /\ (pc = "reconstruct"
               /\ ResolvedAt(Handed(Head(stack)), Head(stack)) \in visit)
              => /\ doc' = doc
                 /\ visit' = visit
                 /\ Head(stack) = <<>> => call'.result = call.schema ]_vars

(* A second call on a union that reaches itself returned, with A patched   *)
(* once.                                                                   *)
C12_Witness ==
    /\ pc = "idle"
    /\ run = 2
    /\ call.schema = Ref("U")
    /\ call.result = Ref("U")
    /\ doc["U"] = OneOf(<<Ref("A"), Ref("U")>>)
    /\ <<"U">> \in visit
    /\ doc["A"] = [type |-> "object", properties |-> [a |-> String, field |-> String]]

(***************************************************************************)
(* C25: an invocation of reconstructAdditionalPropertySchema that reaches  *)
(* an object schema already declaring `field` records an error diagnostic  *)
(* and returns with the document, hence the schema's properties, exactly   *)
(* as before; one that reaches an object schema without `field` leaves it  *)
(* with field: {type: string} added and every other property and key kept. *)
(***************************************************************************)
C25_FieldConflictKeepsProperties ==
    [][ pc = "reconstruct" =>
          LET at == Head(stack)
              handed == Handed(at)
              target == ResolvedAt(handed, at)
              resolved == resolveObj(handed, doc)
              after == IF isReferenceObject(handed) THEN GetAt(doc', target)
                       ELSE IF at = <<>> THEN call'.result
                       ELSE GetAt(doc', at)
          IN (/\ resolved # Undefined
              /\ target \notin visit
              /\ ~Has(resolved, "allOf")
              /\ TypeIs(resolved, "object")
              /\ Has(resolved, "properties"))
             => IF Has(resolved["properties"], "field")
                THEN /\ call'.conflict
                     /\ doc' = doc
                     /\ stack' = Tail(stack)
                     /\ at = <<>> => call'.result = call.schema
                ELSE /\ call'.conflict = call.conflict
                     /\ DOMAIN after = DOMAIN resolved
                     /\ \A k \in DOMAIN resolved \ {"properties"} : after[k] = resolved[k]
                     /\ DOMAIN after["properties"]
                            = DOMAIN resolved["properties"] \cup {"field"}
                     /\ after["properties"]["field"] = String
                     /\ \A k \in DOMAIN resolved["properties"] :
                           after["properties"][k] = resolved["properties"][k] ]_vars

(* A call on a reference to a component that declares `field` returned     *)
(* with the diagnostic recorded and the component as it was.               *)
C25_Witness ==
    /\ pc = "idle"
    /\ run = 1
    /\ call.schema = Ref("A")
    /\ call.result = Ref("A")
    /\ call.conflict
    /\ doc = input
    /\ doc["A"] = [type |-> "object", properties |-> [field |-> String, existing |-> Integer]]

(***************************************************************************)
(* C13: a node of the single-map pattern over T that is a property of the  *)
(* component QueryContainer becomes a direct reference to T, without type, *)
(* additionalProperties, minProperties or maxProperties, and no TSingleMap *)
(* component is registered; the same node as a property under any other    *)
(* component becomes a reference to TSingleMap.                            *)
(***************************************************************************)
C13_ExemptedContextsInline ==
    Returned =>
        \A i \in DOMAIN Sites(input, "T") :
            LET site == Sites(input, "T")[i]
                node == GetAt(doc, site.path)
            IN site.place = "property" =>
                  /\ Exists(doc, site.path)
                  /\ IF Head(site.path) = "QueryContainer"
                     THEN /\ Has(node, "$ref")
                          /\ node["$ref"] = RefPrefix \o "T"
                          /\ DOMAIN node \cap {"type", "additionalProperties",
                                               "minProperties", "maxProperties"} = {}
                          /\ "TSingleMap" \notin DOMAIN doc
                     ELSE node = Ref("TSingleMap")

(***************************************************************************)
(* Single-map materialization: simplifySingleMapSchema(schema, visit,      *)
(* parentSchemaName).  The visited set holds the source types a component  *)
(* was generated for.                                                      *)
(***************************************************************************)
SingleMapSuffix == "SingleMap"

ExemptedContexts == {"QueryContainer"}

UpperCase == "ABCDEFGHIJKLMNOPQRSTUVWXYZ"

LowerCase == "abcdefghijklmnopqrstuvwxyz"

RECURSIVE toSnakeCase(_, _)
toSnakeCase(str, i) ==
    IF i > Len(str) THEN ""
    ELSE LET c == SubSeq(str, i, i)
             upper == {j \in 1..Len(UpperCase) : SubSeq(UpperCase, j, j) = c}
         IN (IF upper = {} THEN c
             ELSE (IF i > 1 THEN "_" ELSE "")
                     \o (LET j == CHOOSE j \in upper : TRUE IN SubSeq(LowerCase, j, j)))
            \o toSnakeCase(str, i + 1)

IsSingleMap(schema) ==
    /\ TypeofObject(schema)
    /\ TypeIs(schema, "object")
    /\ NumIs(schema, "minProperties", 1)
    /\ NumIs(schema, "maxProperties", 1)
    /\ Has(schema, "additionalProperties")
    /\ isReferenceObject(schema["additionalProperties"])

simplifySingleMapSchema(root, seen, path, parentSchemaName) ==
    LET schema == GetAt(root, path)
        T == RefName(schema["additionalProperties"]["$ref"])
        name == T \o SingleMapSuffix
        rest == Del(schema, {"type", "additionalProperties", "minProperties",
                             "maxProperties", "propertyNames", "properties"})
        generated ==
            [type |-> "object",
             properties |-> ("field" :> (IF Has(schema, "propertyNames")
                                         THEN schema["propertyNames"] ELSE String))
                               @@ (toSnakeCase(T, 1) :> schema["additionalProperties"]),
             required |-> <<"field", toSnakeCase(T, 1)>>]
    IN IF ~IsSingleMap(schema) THEN [root |-> root, visit |-> seen]
       ELSE IF parentSchemaName \in ExemptedContexts
       THEN [root |-> SetAt(root, path, ObjectAssign(rest, schema["additionalProperties"])),
             visit |-> seen]
       ELSE [root |-> SetAt(IF T \in seen THEN root ELSE Put(root, name, generated),
                            path, Put(rest, "$ref", RefPrefix \o name)),
             visit |-> seen \cup {T}]

(* Documents with the types T and TSingleMap and nodes of the pattern over *)
(* either, as components or properties.                                    *)
SingleMapSites ==
    LET W == { SingleMap(Ref("T")), SingleMap(Ref("TSingleMap")),
               Put(SingleMap(Ref("T")), "propertyNames", Ref("A")) }
    IN W \cup {InProp(w) : w \in W}

SingleMapDocs ==
    { d \in UNION { [K -> SingleMapSites \cup {Obj, String}] :
                      K \in { {"T", "B", "QueryContainer"},
                              {"T", "B", "QueryContainer", "TSingleMap"} } } :
        /\ d["T"] = Obj
        /\ d["QueryContainer"] \in SingleMapSites
        /\ "TSingleMap" \in DOMAIN d => d["TSingleMap"] \in {Obj, String} }

PatternNodes(spec) ==
    LET nodes == SelectSeq(AllNodes(spec), LAMBDA n : IsSingleMap(GetAt(spec, n.path)))
    IN [i \in DOMAIN nodes |-> nodes[i].path]

InitSingleMap ==
    /\ doc \in SingleMapDocs
    /\ input = doc
    /\ first = doc
    /\ pc = "simplify"
    /\ queue = PatternNodes(doc)
    /\ run = 0
    /\ visit = {}
    /\ stack = <<>>
    /\ call = Undefined
    /\ hooked = <<>>

(* simplifySingleMapSchema is called on one of the nodes of the pattern,   *)
(* with the name of the component the node is in.                          *)
SimplifySingleMap ==
    /\ pc = "simplify"
    /\ \E i \in DOMAIN queue :
          LET out == simplifySingleMapSchema(doc, visit, queue[i], Head(queue[i])) IN
          /\ doc' = out.root
          /\ visit' = out.visit
          /\ queue' = RemoveAt(queue, i)
    /\ UNCHANGED <<input, first, pc, run, stack, call, hooked>>

NextSingleMap == SimplifySingleMap

SpecSingleMap == InitSingleMap /\ [][NextSingleMap]_vars

(***************************************************************************)
(* C14: generated component names are collision-free: registering the      *)
(* component T + 'SingleMap' never overwrites a component the document had *)
(* under that name nor makes a node refer to it, and nodes over distinct   *)
(* source types never end as references to one generated component.        *)
(***************************************************************************)
SourceType(schema) == RefName(schema["additionalProperties"]["$ref"])

C14_GeneratedNamesCollisionFree ==
    LET sites == PatternNodes(input)
        Boxed(i) == /\ Exists(doc, sites[i])
                    /\ ~IsSingleMap(GetAt(doc, sites[i]))
                    /\ Head(sites[i]) \notin ExemptedContexts
    IN /\ \A n \in DOMAIN input \cap {"T", "TSingleMap"} : doc[n] = input[n]
       /\ \A i \in DOMAIN sites :
             Boxed(i) => \A n \in DOMAIN input : GetAt(doc, sites[i]) # Ref(n)
       /\ \A i, j \in DOMAIN sites :
             (/\ Boxed(i) /\ Boxed(j)
              /\ SourceType(GetAt(input, sites[i])) # SourceType(GetAt(input, sites[j])))
                => GetAt(doc, sites[i]) # GetAt(doc, sites[j])

(***************************************************************************)
(* Enum deduplication: deduplicateEnumValue(schema) keeps one entry per    *)
(* lower-cased key, in the order the keys first occur, spelled as the last *)
(* entry of the key.                                                       *)
(***************************************************************************)
RECURSIVE toLowerCase(_)
toLowerCase(str) ==
    IF Len(str) = 0 THEN ""
    ELSE LET c == SubSeq(str, 1, 1)
             upper == {j \in 1..Len(UpperCase) : SubSeq(UpperCase, j, j) = c}
         IN (IF upper = {} THEN c
             ELSE LET j == CHOOSE j \in upper : TRUE IN SubSeq(LowerCase, j, j))
            \o toLowerCase(SubSeq(str, 2, Len(str)))

(* No two entries of an enum are equal ignoring case. *)
CaseDistinct(enum) ==
    \A i, j \in DOMAIN enum : i # j => toLowerCase(enum[i]) # toLowerCase(enum[j])

(***************************************************************************)
(* C15: after modify, no enum array of the document has two entries that   *)
(* are equal ignoring case.                                                *)
(***************************************************************************)
C15_EnumCaseUnique ==
    Returned => EveryNode(doc, LAMBDA s : Has(s, "enum") => CaseDistinct(s["enum"]))

MaxEnum == 3

EnumValues == {"or", "OR", "Or", "and", "AND"}

FoldedEnum(enum, keepLast) ==
    LET key == [i \in DOMAIN enum |-> toLowerCase(enum[i])]
        firsts == SelectSeq([i \in DOMAIN enum |-> i],
                            LAMBDA i : \A h \in 1..(i - 1) : key[h] # key[i])
        Spelling(I) == IF keepLast
                       THEN enum[CHOOSE i \in I : \A h \in I : h <= i]
                       ELSE enum[CHOOSE i \in I : \A h \in I : h >= i]
    IN [n \in DOMAIN firsts |-> Spelling({i \in DOMAIN enum : key[i] = key[firsts[n]]})]

deduplicateEnumValueFirstSpelling(schema) ==
    IF Has(schema, "enum")
    THEN [schema EXCEPT !["enum"] = FoldedEnum(@, FALSE)]
    ELSE schema

deduplicateEnumValue(schema) ==
    IF Has(schema, "enum")
    THEN [schema EXCEPT !["enum"] = FoldedEnum(@, TRUE)]
    ELSE schema

RECURSIVE SeqsUpTo(_, _)
SeqsUpTo(S, n) ==
    IF n = 0 THEN {<<>>}
    ELSE LET shorter == SeqsUpTo(S, n - 1) IN
         shorter \cup {Append(q, v) : q \in shorter, v \in S}

EnumSchemas == {String} \cup {[type |-> "string", enum |-> e] : e \in SeqsUpTo(EnumValues, MaxEnum)}

InitEnum ==
    /\ doc \in EnumSchemas
    /\ input = doc
    /\ first = doc
    /\ pc = "enum"
    /\ queue = <<>>
    /\ run = 0
    /\ visit = {}
    /\ stack = <<>>
    /\ call = Undefined
    /\ hooked = <<>>

DeduplicateEnumValue ==
    /\ pc = "enum"
    /\ doc' = deduplicateEnumValue(doc)
    /\ pc' = "deduplicated"
    /\ UNCHANGED <<input, first, queue, run, visit, stack, call, hooked>>

NextEnum == DeduplicateEnumValue

SpecEnum == InitEnum /\ [][NextEnum]_vars

(***************************************************************************)
(* C16: deduplicateEnumValue leaves exactly one entry per case-folded key, *)
(* the keys in the order of their first occurrence, each spelled as the    *)
(* last entry of its key; an enum whose entries are already distinct       *)
(* ignoring case is unchanged.                                             *)
(***************************************************************************)
C16_EnumFoldedLastSpelling ==
    (pc = "deduplicated" /\ Has(input, "enum")) =>
        LET in == input["enum"]
            out == doc["enum"]
            FirstOf(k) == CHOOSE i \in DOMAIN in :
                              /\ toLowerCase(in[i]) = k
                              /\ \A h \in 1..(i - 1) : toLowerCase(in[h]) # k
        IN /\ CaseDistinct(out)
           /\ \A i \in DOMAIN in : \E j \in DOMAIN out : toLowerCase(out[j]) = toLowerCase(in[i])
           /\ \A j \in DOMAIN out :
                 \E i \in DOMAIN in :
                     /\ out[j] = in[i]
                     /\ \A h \in (i + 1)..Len(in) : toLowerCase(in[h]) # toLowerCase(in[i])
           /\ \A j, k \in DOMAIN out :
                 j < k => FirstOf(toLowerCase(out[j])) < FirstOf(toLowerCase(out[k]))
           /\ CaseDistinct(in) => out = in

C16_Witness ==
    /\ pc = "deduplicated"
    /\ input = [type |-> "string", enum |-> <<"OR", "and", "or">>]
    /\ doc = [type |-> "string", enum |-> <<"or", "and">>]

(***************************************************************************)
(* utils/SpecificationVisitor: SchemaVisitor walks the schemas of the      *)
(* components and applies its callback to every schema it visits.  A walk  *)
(* is the sequence of the contexts (paths) the callback is applied at;     *)
(* `hooked` holds the calls made so far.                                   *)
(***************************************************************************)
is_ref(o) == o # Null /\ TypeofObject(o) /\ Has(o, "$ref")

is_array_schema(schema) == TypeIs(schema, "array")

(* visit and visit_each skip a child that is null or undefined. *)
NullChild(child) == child \in {Null, Undefined}

RECURSIVE SchemaVisitor_visit_schema(_, _)

SpecificationVisitor_visit_schema(ctx, schema) ==
    IF is_ref(schema) THEN <<>>
    ELSE LET visit_one(key) ==
                 IF Has(schema, key) /\ ~NullChild(schema[key])
                 THEN SchemaVisitor_visit_schema(ctx \o <<key>>, schema[key])
                 ELSE <<>>
             visit_each_member(key) ==
                 IF Has(schema, key)
                 THEN Concat([i \in DOMAIN schema[key] |->
                                 IF NullChild(schema[key][i]) THEN <<>>
                                 ELSE SchemaVisitor_visit_schema(ctx \o <<key, NumStr(i - 1)>>,
                                                                 schema[key][i])])
                 ELSE <<>>
             visit_each_property ==
                 IF Has(schema, "properties") /\ ~NullChild(schema["properties"])
                 THEN LET ks == Keys(schema["properties"]) IN
                      Concat([i \in DOMAIN ks |->
                                 IF NullChild(schema["properties"][ks[i]]) THEN <<>>
                                 ELSE SchemaVisitor_visit_schema(
                                          ctx \o <<"properties", ks[i]>>,
                                          schema["properties"][ks[i]])])
                 ELSE <<>>
         IN (IF is_array_schema(schema) THEN visit_one("items") ELSE <<>>)
            \o (IF Has(schema, "additionalProperties")
                   /\ TypeofObject(schema["additionalProperties"])
                THEN visit_one("additionalProperties") ELSE <<>>)
            \o visit_each_property
            \o visit_each_member("allOf")
            \o visit_each_member("anyOf")
            \o visit_each_member("oneOf")
            \o visit_one("not")

SchemaVisitor_visit_schemaPreOrder(ctx, schema) ==
    <<ctx>> \o SpecificationVisitor_visit_schema(ctx, schema)

SchemaVisitor_visit_schema(ctx, schema) ==
    SpecificationVisitor_visit_schema(ctx, schema) \o <<ctx>>

visit_components(schemas) ==
    LET ks == Keys(schemas) IN
    Concat([i \in DOMAIN ks |-> SchemaVisitor_visit_schema(<<ks[i]>>, schemas[ks[i]])])

(* The documents walked: schemas with children of every kind, references   *)
(* with keys beside $ref, null children, and items under a schema that is  *)
(* not of type array.                                                      *)
VisitorNodes ==
    LET base == { String,
                  Ref("B"),
                  ObjectAssign(Ref("B"), InProp(String)),
                  Arr(String),
                  Arr(Ref("B")),
                  [items |-> String],
                  [type |-> "object", items |-> Obj],
                  InAdditional(String),
                  [type |-> "object", additionalProperties |-> TrueLit],
                  [type |-> "object", properties |-> [x |-> String, y |-> Ref("B")]],
                  OneOf(<<String, Null, Ref("B")>>),
                  [anyOf |-> <<String, Obj>>],
                  [not |-> Obj] }
    IN base \cup {InProp(s) : s \in base} \cup {InItems(s) : s \in base}
            \cup {InAdditional(s) : s \in base} \cup {InAllOf(s) : s \in base}
            \cup {[not |-> s] : s \in base}

VisitorDocs == { [A |-> a, B |-> b] : a \in VisitorNodes, b \in {String, Obj, Ref("A")} }

InitVisitor ==
    /\ doc \in VisitorDocs
    /\ input = doc
    /\ first = doc
    /\ pc = "walk"
    /\ queue = visit_components(doc)
    /\ run = 0
    /\ visit = {}
    /\ stack = <<>>
    /\ call = Undefined
    /\ hooked = <<>>

(* The walk applies the callback to the next schema. *)
SchemaVisitorCallback ==
    /\ pc = "walk"
    /\ queue # <<>>
    /\ hooked' = Append(hooked, Head(queue))
    /\ queue' = Tail(queue)
    /\ pc' = IF Tail(queue) = <<>> THEN "walked" ELSE "walk"
    /\ UNCHANGED <<doc, input, first, run, visit, stack, call>>

NextVisitor == SchemaVisitorCallback

SpecVisitor == InitVisitor /\ [][NextVisitor]_vars

(***************************************************************************)
(* C17: the traversal is post-order: the callback for a node is applied    *)
(* only after the callbacks of the nodes below it; each non-reference      *)
(* schema location reachable from a component through items,               *)
(* additionalProperties, properties and allOf/anyOf/oneOf members gets its *)
(* callback exactly once per walk; and the walk never goes below a         *)
(* reference.                                                              *)
(***************************************************************************)
StrictlyBelow(p, q) == Len(q) > Len(p) /\ SubSeq(q, 1, Len(p)) = p

RECURSIVE Locations(_, _, _)
Locations(schema, path, anyItems) ==
    IF ~TypeofObject(schema) \/ Has(schema, "$ref") THEN <<>>
    ELSE LET One(k) ==
                 IF Has(schema, k) THEN Locations(schema[k], path \o <<k>>, anyItems) ELSE <<>>
             Many(k) ==
                 IF Has(schema, k)
                 THEN Concat([i \in DOMAIN schema[k] |->
                                 Locations(schema[k][i], path \o <<k, NumStr(i - 1)>>, anyItems)])
                 ELSE <<>>
             Props ==
                 IF Has(schema, "properties")
                 THEN LET ks == Keys(schema["properties"]) IN
                      Concat([i \in DOMAIN ks |->
                                 Locations(schema["properties"][ks[i]],
                                           path \o <<"properties", ks[i]>>, anyItems)])
                 ELSE <<>>
         IN <<path>>
              \o (IF anyItems \/ TypeIs(schema, "array") THEN One("items") ELSE <<>>)
              \o One("additionalProperties") \o Props
              \o Many("allOf") \o Many("anyOf") \o Many("oneOf")

Reachable(spec, anyItems) ==
    LET ks == Keys(spec) IN
    Concat([i \in DOMAIN ks |-> Locations(spec[ks[i]], <<ks[i]>>, anyItems)])

(* The context `path`, which names array members by their index as a    *)
(* string, lies below a reference of the document.                         *)
RECURSIVE BelowReference(_, _)
BelowReference(node, path) ==
    /\ Len(path) > 0
    /\ \/ is_ref(node)
       \/ IF Head(path) \in NodeArrayKeys
          THEN LET i == CHOOSE i \in DOMAIN node[path[1]] : NumStr(i - 1) = path[2]
               IN BelowReference(node[path[1]][i], Tail(Tail(path)))
          ELSE IF Head(path) = "properties"
          THEN BelowReference(node[path[1]][path[2]], Tail(Tail(path)))
          ELSE BelowReference(node[Head(path)], Tail(path))

PostOrderWalk(locations) ==
    /\ \A i, j \in DOMAIN hooked : i < j => ~StrictlyBelow(hooked[i], hooked[j])
    /\ \A i, j \in DOMAIN hooked : i # j => hooked[i] # hooked[j]
    /\ \A i \in DOMAIN hooked : ~BelowReference(doc, hooked[i])
    /\ pc = "walked" =>
          \A l \in DOMAIN locations : \E i \in DOMAIN hooked : hooked[i] = locations[l]

C17_PostOrderExactlyOnce == PostOrderWalk(Reachable(doc, TRUE))

(* C17 as it holds: the items of a schema are walked only when the schema  *)
(* is of type array.                                                       *)
C17_PostOrderExactlyOnceArrayItems == PostOrderWalk(Reachable(doc, FALSE))

C17_Witness ==
    /\ pc = "walked"
    /\ doc["A"] = InProp(Arr(Ref("B")))
    /\ hooked = << <<"A", "properties", "p", "items">>, <<"A", "properties", "p">>, <<"A">>,
                   <<"B">> >>
    /\ doc["B"] = String

(***************************************************************************)
(* The rules on their own: handleOneOfConst, collapseOrMergeOneOfArray and *)
(* collapseSingleItemOneOf applied to a schema with any oneOf of up to     *)
(* MaxMembers members.                                                     *)
(***************************************************************************)
MaxMembers == 3

RuleMembers ==
    { String, Integer, Titled(String, "m"), Arr(String), Arr(Integer),
      Const("string", "a"), OneOf(<<String, Integer>>) }

RuleParents == { <<>>, [type |-> "object", title |-> "p", description |-> "d"] }

RuleSchemas ==
    RuleParents \cup
    { ObjectAssign(parent, OneOf(members)) :
        parent \in RuleParents, members \in SeqsUpTo(RuleMembers, MaxMembers) }

InitRule ==
    /\ doc \in RuleSchemas
    /\ input = doc
    /\ first = doc
    /\ pc = "schema"
    /\ queue = <<>>
    /\ run = 0
    /\ visit = {}
    /\ stack = <<>>
    /\ call = Undefined
    /\ hooked = <<>>

ApplyRule(rule, out) ==
    /\ pc = "schema"
    /\ pc' = rule
    /\ doc' = out
    /\ UNCHANGED <<input, first, queue, run, visit, stack, call, hooked>>

HandleOneOfConst == ApplyRule("handleOneOfConst", handleOneOfConst(doc, "A"))

CollapseOrMergeOneOfArray ==
    ApplyRule("collapseOrMergeOneOfArray", collapseOrMergeOneOfArray(doc))

CollapseSingleItemOneOf == ApplyRule("collapseSingleItemOneOf", collapseSingleItemOneOf(doc))

NextRule ==
    \/ HandleOneOfConst
    \/ CollapseOrMergeOneOfArray
    \/ CollapseSingleItemOneOf

SpecRule == InitRule /\ [][NextRule]_vars

(***************************************************************************)
(* C18: collapseOrMergeOneOfArray removes from the oneOf exactly the       *)
(* non-array members whose {type, $ref, additionalProperties} shape equals *)
(* the shape of the items of some array member, whatever the number and    *)
(* the order of the members (a single member left is then merged into the  *)
(* schema).                                                                *)
(***************************************************************************)
ItemShapes(oneOfs) ==
    {Shape(oneOfs[i]["items"]) : i \in {i \in DOMAIN oneOfs : isArraySchemaObject(oneOfs[i])}}

Subsumed(oneOfs, m) == ~isArraySchemaObject(m) /\ Shape(m) \in ItemShapes(oneOfs)

C19_NoConstUnchanged ==
    (/\ pc = "handleOneOfConst"
     /\ Has(input, "oneOf") => \A i \in DOMAIN input["oneOf"] : ~Has(input["oneOf"][i], "const"))
        => doc = input

C19_Witness ==
    /\ pc = "handleOneOfConst"
    /\ input = [type |-> "object", title |-> "p", description |-> "d",
                oneOf |-> <<String, Titled(String, "m"), Arr(String)>>]
    /\ doc = input

(***************************************************************************)
(* C20: the collapse of a oneOf with the single member M is a shallow      *)
(* merge: every key of M is on the schema with M's value, every other key  *)
(* of the schema but the collapsed oneOf keeps its value, and the          *)
(* collapsed oneOf is gone.                                                *)
(***************************************************************************)
C20_SingleItemShallowMerge ==
    (pc = "collapseSingleItemOneOf" /\ Has(input, "oneOf") /\ Len(input["oneOf"]) = 1) =>
        LET M == input["oneOf"][1] IN
        /\ DOMAIN doc = (DOMAIN input \ {"oneOf"}) \cup DOMAIN M
        /\ \A k \in DOMAIN M : doc[k] = M[k]
        /\ \A k \in DOMAIN input \ (DOMAIN M \cup {"oneOf"}) : doc[k] = input[k]

(***************************************************************************)
(* CollapseOneOfObjectPropContainsTitleSchema on its own: applied to the   *)
(* component A of a document whose oneOf has up to MaxMembers members,     *)
(* titled or not, with the other member an object, a reference or an       *)
(* allOf.                                                                  *)
(***************************************************************************)
WithId(s) == [type |-> "object", properties |-> [id |-> s]]

CollapseMembers ==
    { Titled(Ref("V"), "id"), Titled(String, "id"), Titled(String, "name"),
      Ref("T"), Ref("Missing"), String,
      WithId(Ref("V")), WithId(String), [allOf |-> <<WithId(String)>>] }

CollapseTargets ==
    { WithId(Ref("V")), WithId(String), WithId(Integer),
      [allOf |-> <<WithId(Ref("V")), Obj>>], [allOf |-> <<Ref("V"), WithId(String)>>],
      String }

CollapseDocs ==
    { [A |-> a, T |-> t, V |-> String] :
        a \in {String} \cup {OneOf(ms) : ms \in SeqsUpTo(CollapseMembers, MaxMembers)},
        t \in CollapseTargets }

InitCollapse ==
    /\ doc \in CollapseDocs
    /\ input = doc
    /\ first = doc
    /\ pc = "schema"
    /\ queue = <<>>
    /\ run = 0
    /\ visit = {}
    /\ stack = <<>>
    /\ call = Undefined
    /\ hooked = <<>>

CollapseOneOfObjectPropContainsTitle ==
    /\ pc = "schema"
    /\ LET out == CollapseOneOfObjectPropContainsTitleSchema(doc, <<"A">>) IN
       doc' = IF Thrown(out) THEN out["spec"] ELSE out
    /\ pc' = "collapsed"
    /\ UNCHANGED <<input, first, queue, run, visit, stack, call, hooked>>

NextCollapse == CollapseOneOfObjectPropContainsTitle

SpecCollapse == InitCollapse /\ [][NextCollapse]_vars

(* The match the redundant-union collapse is described by: `simple` has a  *)
(* title, and `complex`, resolved, is an object, or an allOf with a member *)
(* that resolved is an object, with a property named by the title whose    *)
(* $ref or type occurs in the serialization of `simple`.                   *)
TitleMatches(root, simple, complex) ==
    /\ TypeofObject(simple)
    /\ Has(simple, "title")
    /\ LET resolved == resolveObj(complex, root)
           Declares(o) ==
               /\ TypeofObject(o)
               /\ Has(o, "properties")
               /\ simple["title"] \in DOMAIN o["properties"]
               /\ PropMatches(o["properties"][simple["title"]], JSONstringify(simple))
       IN /\ TypeofObject(resolved)
          /\ \/ Declares(resolved)
             \/ /\ Has(resolved, "allOf")
                /\ \E i \in DOMAIN resolved["allOf"] :
                      Declares(resolveObj(resolved["allOf"][i], root))

(***************************************************************************)
(* C21: CollapseOneOfObjectPropContainsTitleSchema leaves the schema and   *)
(* its members unchanged when the oneOf does not have exactly two members, *)
(* or no member has a title, or the other member does not resolve, or the  *)
(* other member has no property named by the title whose $ref or type      *)
(* occurs in the titled member's serialization.                            *)
(***************************************************************************)
C21_MismatchUnchanged ==
    (/\ pc = "collapsed"
     /\ LET a == input["A"] IN
        \/ ~Has(a, "oneOf")
        \/ Len(a["oneOf"]) # 2
        \/ /\ ~TitleMatches(input, a["oneOf"][1], a["oneOf"][2])
           /\ ~TitleMatches(input, a["oneOf"][2], a["oneOf"][1]))
        => doc = input

C21_Witness ==
    /\ pc = "collapsed"
    /\ input["A"] = OneOf(<<Ref("T"), Titled(String, "id")>>)
    /\ input["T"] = WithId(Integer)
    /\ doc = input

(***************************************************************************)
(* C22: a two-member oneOf where one member, in either position, has the   *)
(* title t and the other is an object, directly, through a reference or    *)
(* through one level of allOf, with a property t whose $ref or type occurs *)
(* in the serialization of the titled member, ends with no oneOf and with  *)
(* the fields of the remaining member.                                     *)
(***************************************************************************)
C22_MatchCollapses ==
    (/\ pc = "collapsed"
     /\ Has(input["A"], "oneOf")
     /\ Len(input["A"]["oneOf"]) = 2
     /\ \E i \in {1, 2} :
           TitleMatches(input, input["A"]["oneOf"][i], input["A"]["oneOf"][3 - i]))
        => \E i \in {1, 2} :
              /\ TitleMatches(input, input["A"]["oneOf"][i], input["A"]["oneOf"][3 - i])
              /\ doc = [input EXCEPT !["A"] =
                           ObjectAssign(Del(@, {"oneOf"}), @["oneOf"][3 - i])]

(***************************************************************************)
(* Additional-properties-to-property conversion:                           *)
(* convertAdditionalPropertiesToProperty(schema).  A titled                *)
(* additionalProperties schema becomes the property named by its title: an *)
(* object whose additionalProperties is the schema without its title, or   *)
(* true when nothing but the title was there.                              *)
(***************************************************************************)
TitledAdditional(schema) ==
    /\ Has(schema, "additionalProperties")
    /\ TypeofObject(schema["additionalProperties"])
    /\ Has(schema["additionalProperties"], "title")

ConvertedProperty(additional) ==
    LET rest == Del(additional, {"title"}) IN
    [type |-> "object",
     additionalProperties |-> IF DOMAIN rest = {} THEN TrueLit ELSE rest]

ConvertAdditional(schema, overwrite) ==
    LET title == schema["additionalProperties"]["title"]
        properties == IF Has(schema, "properties") THEN schema["properties"] ELSE <<>>
    IN IF ~TitledAdditional(schema) THEN schema
       ELSE IF NumIs(schema, "minProperties", 1) /\ NumIs(schema, "maxProperties", 1)
       THEN schema
       ELSE IF Has(properties, title) /\ ~overwrite THEN schema
       ELSE Put(Del(schema, {"additionalProperties", "minProperties", "maxProperties",
                             "propertyNames"}),
                "properties",
                Put(properties, title, ConvertedProperty(schema["additionalProperties"])))

convertAdditionalPropertiesToPropertyOverwriting(schema) == ConvertAdditional(schema, TRUE)

convertAdditionalPropertiesToProperty(schema) == ConvertAdditional(schema, FALSE)

ConvertSchemas ==
    { ObjectAssign(ObjectAssign(ObjectAssign([type |-> "object"], props), additional), limits) :
        props \in { <<>>, [properties |-> [location |-> String]],
                    [properties |-> [distance |-> String]] },
        additional \in
            { <<>> } \cup
            { ObjectAssign([additionalProperties |-> a], names) :
                a \in { TrueLit, String, Titled(String, "location"),
                        Titled(Ref("GeoLocation"), "location"), [title |-> "location"] },
                names \in { <<>>, [propertyNames |-> String] } },
        limits \in { <<>>, [minProperties |-> 1, maxProperties |-> 1],
                     [minProperties |-> 2], [minProperties |-> 1, maxProperties |-> 2] } }

InitConvert ==
    /\ doc \in ConvertSchemas
    /\ input = doc
    /\ first = doc
    /\ pc = "schema"
    /\ queue = <<>>
    /\ run = 0
    /\ visit = {}
    /\ stack = <<>>
    /\ call = Undefined
    /\ hooked = <<>>

ConvertAdditionalPropertiesToProperty ==
    /\ pc = "schema"
    /\ doc' = convertAdditionalPropertiesToProperty(doc)
    /\ pc' = "converted"
    /\ UNCHANGED <<input, first, queue, run, visit, stack, call, hooked>>

NextConvert == ConvertAdditionalPropertiesToProperty

SpecConvert == InitConvert /\ [][NextConvert]_vars

(***************************************************************************)
(* C23: convertAdditionalPropertiesToProperty leaves the schema unchanged  *)
(* when additionalProperties has no title, when properties already has a   *)
(* key equal to the title, or when minProperties and maxProperties are 1;  *)
(* in every other case with a titled additionalProperties it adds the      *)
(* property under the title, keeps the other properties, and removes       *)
(* additionalProperties and propertyNames.                                 *)
(***************************************************************************)
C23_ConvertNeverOverwrites ==
    pc = "converted" =>
        LET title == input["additionalProperties"]["title"] IN
        IF \/ ~TitledAdditional(input)
           \/ Has(input, "properties") /\ Has(input["properties"], title)
           \/ NumIs(input, "minProperties", 1) /\ NumIs(input, "maxProperties", 1)
        THEN doc = input
        ELSE /\ Has(doc, "properties")
             /\ Has(doc["properties"], title)
             /\ Has(input, "properties") =>
                   \A k \in DOMAIN input["properties"] :
                       Has(doc["properties"], k) /\ doc["properties"][k] = input["properties"][k]
             /\ ~Has(doc, "additionalProperties")
             /\ ~Has(doc, "propertyNames")

C23_Witness ==
    /\ pc = "converted"
    /\ input = [type |-> "object", properties |-> [location |-> String],
                additionalProperties |-> Titled(String, "location"),
                propertyNames |-> String, minProperties |-> 2]
    /\ doc = input

(***************************************************************************)
(* OneOf-to-mutual-exclusivity conversion:                                 *)
(* convertOneOfToMinMaxProperties(schema).  A oneOf whose members each     *)
(* declare one property becomes one properties map with minProperties and  *)
(* maxProperties 1; a later member's property replaces an earlier one of   *)
(* the same name.                                                          *)
(***************************************************************************)
FalseLit == [literal |-> "false"]

SingleProperty(member) ==
    /\ TypeofObject(member)
    /\ ~Has(member, "$ref")
    /\ Has(member, "properties")
    /\ Cardinality(DOMAIN member["properties"]) = 1

RECURSIVE MergedProperties(_, _)
MergedProperties(properties, members) ==
    IF Len(members) = 0 THEN properties
    ELSE MergedProperties(ObjectAssign(properties, Head(members)["properties"]), Tail(members))

ConvertOneOf(schema, anyCount) ==
    LET Convertible(member) ==
            IF anyCount
            THEN TypeofObject(member) /\ ~Has(member, "$ref") /\ Has(member, "properties")
            ELSE SingleProperty(member)
    IN IF Has(schema, "oneOf") /\ Len(schema["oneOf"]) > 0
          /\ \A i \in DOMAIN schema["oneOf"] : Convertible(schema["oneOf"][i])
       THEN ObjectAssign(
                Del(schema, {"oneOf", "unevaluatedProperties"}),
                [properties |-> MergedProperties(
                                    IF Has(schema, "properties")
                                    THEN schema["properties"] ELSE <<>>,
                                    schema["oneOf"]),
                 minProperties |-> 1,
                 maxProperties |-> 1])
       ELSE schema

convertOneOfToMinMaxPropertiesAnyCount(schema) == ConvertOneOf(schema, TRUE)

convertOneOfToMinMaxProperties(schema) == ConvertOneOf(schema, FALSE)

OneProperty(k, s) == [properties |-> (k :> s), required |-> <<k>>]

MinMaxMembers ==
    { OneProperty("field1", String), OneProperty("field1", Integer),
      OneProperty("field2", Integer),
      [properties |-> [field1 |-> String, field2 |-> String], required |-> <<"field1">>],
      Ref("Field1"), String }

MinMaxParents ==
    { <<>>, [unevaluatedProperties |-> FalseLit],
      [type |-> "object", properties |-> [own |-> String]] }

MinMaxSchemas ==
    MinMaxParents \cup
    { ObjectAssign(parent, OneOf(members)) :
        parent \in MinMaxParents, members \in SeqsUpTo(MinMaxMembers, MaxMembers) }

InitMinMax ==
    /\ doc \in MinMaxSchemas
    /\ input = doc
    /\ first = doc
    /\ pc = "schema"
    /\ queue = <<>>
    /\ run = 0
    /\ visit = {}
    /\ stack = <<>>
    /\ call = Undefined
    /\ hooked = <<>>

ConvertOneOfToMinMaxProperties ==
    /\ pc = "schema"
    /\ doc' = convertOneOfToMinMaxProperties(doc)
    /\ pc' = "converted"
    /\ UNCHANGED <<input, first, queue, run, visit, stack, call, hooked>>

NextMinMax == ConvertOneOfToMinMaxProperties

SpecMinMax == InitMinMax /\ [][NextMinMax]_vars

(***************************************************************************)
(* C24: convertOneOfToMinMaxProperties rewrites a schema exactly when its  *)
(* oneOf is not empty and every member is a non-reference schema with      *)
(* exactly one property; the result has no oneOf and no                    *)
(* unevaluatedProperties, minProperties = maxProperties = 1 and a          *)
(* properties map holding every member's property with its schema;         *)
(* otherwise the schema is unchanged.                                      *)
(***************************************************************************)
Rewritable(schema) ==
    /\ Has(schema, "oneOf")
    /\ Len(schema["oneOf"]) > 0
    /\ \A i \in DOMAIN schema["oneOf"] : SingleProperty(schema["oneOf"][i])

Flattened(HoldsProperty(_, _)) ==
    /\ ~Has(doc, "oneOf")
    /\ ~Has(doc, "unevaluatedProperties")
    /\ NumIs(doc, "minProperties", 1)
    /\ NumIs(doc, "maxProperties", 1)
    /\ Has(doc, "properties")
    /\ \A i \in DOMAIN input["oneOf"] :
          \A k \in DOMAIN input["oneOf"][i]["properties"] :
              /\ Has(doc["properties"], k)
              /\ HoldsProperty(k, input["oneOf"][i]["properties"][k])

C24_OneOfToMinMax ==
    pc = "converted" =>
        IF Rewritable(input)
        THEN Flattened(LAMBDA k, s : doc["properties"][k] = s)
        ELSE doc = input

(* C24 as it holds: of members that declare the same property name, the    *)
(* map holds the schema of one of them.                                    *)
C24_OneOfToMinMaxPerName ==
    pc = "converted" =>
        IF Rewritable(input)
        THEN Flattened(LAMBDA k, s :
                 \E j \in DOMAIN input["oneOf"] :
                     /\ Has(input["oneOf"][j]["properties"], k)
                     /\ doc["properties"][k] = input["oneOf"][j]["properties"][k]
                     /\ (\A h \in DOMAIN input["oneOf"] :
                            Has(input["oneOf"][h]["properties"], k) => h = j)
                           => doc["properties"][k] = s)
        ELSE doc = input

C24_Witness ==
    /\ pc = "converted"
    /\ input = [unevaluatedProperties |-> FalseLit,
                oneOf |-> <<OneProperty("field1", String), OneProperty("field2", Integer)>>]
    /\ doc = [properties |-> [field1 |-> String, field2 |-> Integer],
              minProperties |-> 1, maxProperties |-> 1]

(***************************************************************************)
(* Object identity.  transformPropertyNamesSchema and                      *)
(* cloneAdditionalPropertySchema on a heap: the document is a sequence of  *)
(* objects, an object maps its keys to literals or to pointers to other    *)
(* objects, object 1 is components.schemas.  Assignments copy pointers, as *)
(* JavaScript does, so two places of the document can hold one object.     *)
(***************************************************************************)
Lit(str) == [lit |-> str]

Ptr(id) == [ptr |-> id]

IsPtr(value) == Has(value, "ptr")

SchemasObject == 1

HeapT == 2

HeapSites == {3, 4}

HeapComponents ==
    [T |-> Ptr(HeapT), N1 |-> Ptr(3), N2 |-> Ptr(4)]

(* resolveObj returns the component object itself, or the object handed in. *)
HeapResolveObj(heap, id) ==
    IF ~Has(heap[id], "$ref") THEN id
    ELSE IF RefName(heap[id]["$ref"].lit) \in DOMAIN heap[SchemasObject]
         THEN heap[SchemasObject][RefName(heap[id]["$ref"].lit)].ptr
         ELSE 0

(* The object the call returns is Len(heap) + 1, its properties map the    *)
(* next object and its `field` schema the one after.                       *)
HeapCloneAdditionalPropertySchema(heap) ==
    heap \o << [type |-> Lit("object"), properties |-> Ptr(Len(heap) + 2)],
               [field |-> Ptr(Len(heap) + 3)],
               [type |-> Lit("string")] >>

HeapSingleMap(heap, id) ==
    /\ Has(heap[id], "type") /\ heap[id]["type"] = Lit("object")
    /\ Has(heap[id], "additionalProperties") /\ IsPtr(heap[id]["additionalProperties"])
    /\ Has(heap[id], "minProperties") /\ heap[id]["minProperties"] = Lit("1")
    /\ Has(heap[id], "maxProperties") /\ heap[id]["maxProperties"] = Lit("1")

HeapBranch(heap, id) ==
    LET complexObject == HeapResolveObj(heap, heap[id]["additionalProperties"].ptr)
    IN IF complexObject = 0 THEN "none"
       ELSE IF Has(heap[complexObject], "allOf") THEN "allOf"
       ELSE IF Has(heap[complexObject], "type") /\ heap[complexObject]["type"] = Lit("object")
               /\ Has(heap[complexObject], "properties") THEN "object"
       ELSE IF Has(heap[complexObject], "type") /\ heap[complexObject]["type"] = Lit("integer")
       THEN "integer"
       ELSE "none"

HeapTransformPropertyNamesSchema(heap, id) ==
    LET additional == heap[id]["additionalProperties"].ptr
        complexObject == HeapResolveObj(heap, additional)
        branch == HeapBranch(heap, id)
        fresh == Len(heap) + 1
        cloned == HeapCloneAdditionalPropertySchema(heap)
        array == heap[complexObject]["allOf"].ptr
        assigned ==
            IF branch = "allOf"
            THEN [cloned EXCEPT
                    ![array] = Put(@, NumStr(Cardinality(DOMAIN @)), Ptr(fresh)),
                    ![id] = ObjectAssign(@, heap[additional])]
            ELSE IF branch = "object"
            THEN [heap EXCEPT ![id] = ObjectAssign(@, heap[additional])]
            ELSE IF branch = "integer"
            THEN [cloned EXCEPT
                    ![fresh + 1] = Put(@, "value", Ptr(complexObject)),
                    ![id] = ObjectAssign(@, cloned[fresh])]
            ELSE heap
    IN [assigned EXCEPT
          ![id] = Del(@, {"additionalProperties", "minProperties", "maxProperties",
                          "propertyNames"})]

(* The wrapper a call creates: the component it ends up in, the schema     *)
(* that carries it, its properties map, its `field` schema and the schema  *)
(* placed inside it (0 when there is none).                                *)
HeapWrapper(heap, id) ==
    LET additional == heap[id]["additionalProperties"].ptr
        complexObject == HeapResolveObj(heap, additional)
        fresh == Len(heap) + 1
    IN IF HeapBranch(heap, id) = "allOf"
       THEN [owner |-> IF complexObject = additional THEN id ELSE complexObject,
             outer |-> fresh, properties |-> fresh + 1, field |-> fresh + 2, inside |-> 0]
       ELSE [owner |-> id,
             outer |-> id, properties |-> fresh + 1, field |-> fresh + 2,
             inside |-> complexObject]

HeapTargets ==
    { [type |-> Lit("integer")],
      [type |-> Lit("string")],
      [type |-> Lit("object"), properties |-> Ptr(7)],
      [allOf |-> Ptr(8)] }

HeapAdditional ==
    { "$ref" :> Lit(RefPrefix \o "T"),
      [type |-> Lit("integer")],
      [type |-> Lit("integer"), title |-> Lit("count")],
      [allOf |-> Ptr(9)] }

HeapSite(additional, names) ==
    ObjectAssign([type |-> Lit("object"), additionalProperties |-> Ptr(additional),
                  minProperties |-> Lit("1"), maxProperties |-> Lit("1")],
                 IF names = 0 THEN <<>> ELSE [propertyNames |-> Ptr(names)])

Heaps ==
    { << HeapComponents, t, HeapSite(5, n1), HeapSite(6, n2), a1, a2,
         [a |-> Ptr(11)], ("0" :> Ptr(12)), ("0" :> Ptr(13)), [type |-> Lit("string")],
         [type |-> Lit("string")], [type |-> Lit("string")], [type |-> Lit("string")],
         [type |-> Lit("string")] >> :
        t \in HeapTargets, a1 \in HeapAdditional, a2 \in HeapAdditional \ {[allOf |-> Ptr(9)]},
        n1 \in {0, 10}, n2 \in {0, 14} }

InitHeap ==
    /\ doc \in Heaps
    /\ input = doc
    /\ first = doc
    /\ pc = "heap"
    /\ queue = <<>>
    /\ run = 0
    /\ visit = {}
    /\ stack = <<>>
    /\ call = [object |-> 0, owner |-> 0]
    /\ hooked = <<>>

(* The second traversal reaches a component of the single-map pattern.     *)
TransformPropertyNamesSchemaInPlace ==
    /\ run = 0
    /\ \E id \in HeapSites :
          /\ HeapSingleMap(doc, id)
          /\ doc' = HeapTransformPropertyNamesSchema(doc, id)
          /\ queue' = IF HeapBranch(doc, id) \in {"allOf", "integer"}
                      THEN Append(queue, HeapWrapper(doc, id))
                      ELSE queue
    /\ UNCHANGED <<input, first, pc, run, visit, stack, call, hooked>>

(* A later pass marks a wrapper, its `field` schema or the schema placed   *)
(* inside it, in place, as handleMinMaxProperties marks property schemas.  *)
RewriteInPlace ==
    /\ run = 0
    /\ \E i \in DOMAIN queue :
          \E object \in {queue[i].outer, queue[i].field, queue[i].inside} \ {0} :
              /\ doc' = [doc EXCEPT ![object] = Put(@, "x-oneOf-property", Lit("true"))]
              /\ call' = [object |-> object, owner |-> queue[i].owner]
    /\ run' = 1
    /\ pc' = "rewritten"
    /\ UNCHANGED <<input, first, queue, visit, stack, hooked>>

NextHeap ==
    \/ TransformPropertyNamesSchemaInPlace
    \/ RewriteInPlace

SpecHeap == InitHeap /\ [][NextHeap]_vars

(* The schema at an object, with every pointer followed.                   *)
RECURSIVE Deep(_, _)
Deep(heap, id) ==
    [k \in DOMAIN heap[id] |->
        IF IsPtr(heap[id][k]) THEN Deep(heap, heap[id][k].ptr) ELSE heap[id][k]]

(***************************************************************************)
(* C26: any two wrappers created during a run are distinct objects with    *)
(* distinct properties maps and distinct `field` schemas, so an in-place   *)
(* rewrite of a wrapper, or of a schema placed inside it, changes no       *)
(* component of the document other than the one the wrapper is in.         *)
(***************************************************************************)
C26_WrappersNeverShared ==
    /\ [](\A i, j \in DOMAIN queue :
              i # j => /\ queue[i].outer # queue[j].outer
                       /\ queue[i].properties # queue[j].properties
                       /\ queue[i].field # queue[j].field)
    /\ [][ run' = run + 1 =>
             \A name \in DOMAIN doc[SchemasObject] :
                 doc[SchemasObject][name].ptr # call'.owner
                     => Deep(doc', doc[SchemasObject][name].ptr)
                            = Deep(doc, doc[SchemasObject][name].ptr) ]_vars

(***************************************************************************)
(* One walk of traverse with an onSchemaProperty hook that records its     *)
(* arguments, as the jest mocks of OpenApiTraverser.test.ts do.            *)
(***************************************************************************)
Items(schema) == [type |-> "array", items |-> schema]

Additional(schema) == [type |-> "object", additionalProperties |-> schema]

Nested(below) ==
    { [type |-> "object", properties |-> [child |-> x]] : x \in below }
    \cup { [type |-> "object", properties |-> [name |-> String, child |-> x]] : x \in below }
    \cup { Items(x) : x \in below }
    \cup { Additional(x) : x \in below }
    \cup { [allOf |-> <<x, Ref("T")>>] : x \in below }

TraverseLeaves == {String, Ref("T")}

TraverseNodes == TraverseLeaves \cup Nested(TraverseLeaves \cup Nested(TraverseLeaves))

TraverseDocs ==
    { [A |-> a] : a \in Nested(TraverseNodes) }
    \cup { [A |-> a, B |-> b] : a \in Nested(TraverseLeaves), b \in Nested(TraverseLeaves) }

KeyOf(v) == v.path[Len(v.path)]

(* The arguments of the onSchemaProperty calls of a walk, in call order.   *)
PropertyCalls(spec, visits) ==
    LET RECURSIVE From(_)
        From(i) ==
            IF i > Len(visits) THEN <<>>
            ELSE (IF visits[i].hook = "onSchemaProperty"
                  THEN << [schema |-> GetAt(spec, visits[i].path),
                           key |-> KeyOf(visits[i]),
                           parent |-> visits[i].name] >>
                  ELSE <<>>) \o From(i + 1)
    IN From(1)

InitTraverse ==
    /\ doc \in TraverseDocs
    /\ input = doc
    /\ first = doc
    /\ pc = "schema"
    /\ queue = <<>>
    /\ run = 0
    /\ visit = {}
    /\ stack = <<>>
    /\ call = Undefined
    /\ hooked = <<>>

Traverse ==
    /\ pc = "schema"
    /\ hooked' = PropertyCalls(doc, traverse(doc))
    /\ pc' = "traversed"
    /\ UNCHANGED <<doc, input, first, queue, run, visit, stack, call>>

NextTraverse == Traverse

SpecTraverse == InitTraverse /\ [][NextTraverse]_vars

(* The property and array-items schemas under a schema, at any depth, with *)
(* their keys; references are not schemas and are not entered.             *)
RECURSIVE PropertySchemas(_)
PropertySchemas(schema) ==
    LET IsSchema(c) == TypeofObject(c) /\ ~Has(c, "$ref")
        Below(c) == IF IsSchema(c) THEN PropertySchemas(c) ELSE <<>>
        Here(c, k) == IF IsSchema(c) THEN <<[schema |-> c, key |-> k]>> \o Below(c) ELSE <<>>
        Props == IF Has(schema, "properties")
                 THEN LET ks == Keys(schema["properties"])
                          RECURSIVE From(_)
                          From(i) == IF i > Len(ks) THEN <<>>
                                     ELSE Here(schema["properties"][ks[i]], ks[i]) \o From(i + 1)
                      IN From(1)
                 ELSE <<>>
        Members(key) ==
            IF Has(schema, key)
            THEN LET RECURSIVE From(_)
                     From(i) == IF i > Len(schema[key]) THEN <<>>
                                ELSE Below(schema[key][i]) \o From(i + 1)
                 IN From(1)
            ELSE <<>>
    IN (IF TypeIs(schema, "array") /\ Has(schema, "items")
        THEN Here(schema["items"], "items") ELSE <<>>)
       \o (IF Has(schema, "additionalProperties")
           THEN Below(schema["additionalProperties"]) ELSE <<>>)
       \o Props \o Members("allOf") \o Members("anyOf") \o Members("oneOf")

Occurrences(seq, e) == Cardinality({ i \in DOMAIN seq : seq[i] = e })

(***************************************************************************)
(* C27: for every property or array-items schema nested at any depth under *)
(* a named component, traverse calls onSchemaProperty exactly once with    *)
(* that schema, its own key (or `items`) and the name of the enclosing     *)
(* top-level component; additionalProperties values are descended into but *)
(* never passed to onSchemaProperty.                                       *)
(***************************************************************************)
C27_PropertyHookOncePerSchema ==
    pc = "traversed" =>
        LET Expected(n) ==
                [i \in DOMAIN PropertySchemas(doc[n]) |->
                    [schema |-> PropertySchemas(doc[n])[i].schema,
                     key |-> PropertySchemas(doc[n])[i].key,
                     parent |-> n]]
            expected == IF Has(doc, "B") THEN Expected("A") \o Expected("B") ELSE Expected("A")
        IN /\ Len(hooked) = Len(expected)
           /\ \A i \in DOMAIN expected :
                 Occurrences(hooked, expected[i]) = Occurrences(expected, expected[i])
           /\ \A i \in DOMAIN hooked : hooked[i].key # "additionalProperties"

(* A property two levels below an additionalProperties value of component  *)
(* A was passed with its own key and parent A, the value itself was not.   *)
C27_Witness ==
    /\ pc = "traversed"
    /\ doc = [A |-> Additional([type |-> "object",
                                properties |-> [child |->
                                    [type |-> "object",
                                     properties |-> [child |-> String]]]])]
    /\ Len(hooked) = 2
    /\ \E i \in DOMAIN hooked :
          hooked[i] = [schema |-> String, key |-> "child", parent |-> "A"]

(***************************************************************************)
(* The first traversal of modify on a schema placed twice in one document: *)
(* as the named component A and as the inline property p of component B.   *)
(***************************************************************************)
PlacedDocs ==
    { [A |-> s, T |-> t, B |-> InProp(s)] : s \in BaseNodes, t \in TargetNodes }

InitPlaced ==
    /\ doc \in PlacedDocs
    /\ input = doc
    /\ first = doc
    /\ pc = "first"
    /\ queue = Callbacks("first", doc)
    /\ run = 1
    /\ visit = {}
    /\ stack = <<>>
    /\ call = Undefined
    /\ hooked = <<>>

NextPlaced ==
    \/ FirstOnSchema
    \/ FirstOnSchemaProperty

SpecPlaced == InitPlaced /\ [][NextPlaced]_vars

(* A schema without the titles of its oneOf members, which handleOneOfConst *)
(* derives from the schema name.                                           *)
WithoutDerivedNames(schema) ==
    IF TypeofObject(schema) /\ Has(schema, "oneOf")
    THEN [schema EXCEPT !["oneOf"] =
             [i \in DOMAIN @ |-> IF TypeofObject(@[i]) THEN Del(@[i], {"title"}) ELSE @[i]]]
    ELSE schema

(***************************************************************************)
(* C28: the first walk gives the same result for a schema placed as an     *)
(* inline property as for the same schema placed as a named component, up  *)
(* to the identifiers derived from the schema name; an inline property     *)
(* whose oneOf members are string consts is folded as a named component is. *)
(***************************************************************************)
C28_InlineAsNamed ==
    pc = "second" =>
        WithoutDerivedNames(doc["B"]["properties"]["p"]) = WithoutDerivedNames(doc["A"])

(***************************************************************************)
(* Filter: filter_spec keeps the listed paths and the components they      *)
(* refer to.  A node is walked as `for (key in node)` walks it; the keys   *)
(* below hold strings, those of ArrayKeys arrays, every other key an       *)
(* object.                                                                 *)
(***************************************************************************)
StringValuedKeys ==
    {"$ref", "type", "description", "operationId", "x-operation-group", "title"}

ArrayKeys == {"oneOf", "allOf", "anyOf", "parameters"}

ComponentsPrefix == "#/components/"

StartsWith(str, prefix) ==
    Len(str) >= Len(prefix) /\ SubSeq(str, 1, Len(prefix)) = prefix

RECURSIVE Split(_, _, _)
Split(str, i, start) ==
    IF i > Len(str) THEN <<SubSeq(str, start, Len(str))>>
    ELSE IF SubSeq(str, i, i) = "/"
         THEN <<SubSeq(str, start, i - 1)>> \o Split(str, i + 1, i + 1)
         ELSE Split(str, i + 1, start)

RECURSIVE AfterPrefix(_, _, _)
AfterPrefix(str, i, start) ==
    IF i + 2 > Len(str) THEN SubSeq(str, start, Len(str))
    ELSE IF SubSeq(str, i, i + 2) = "___"
         THEN AfterPrefix(str, i + 3, i + 3)
         ELSE AfterPrefix(str, i + 1, start)

getSchemaNames(ref) ==
    IF ~StartsWith(ref, RefPrefix) THEN Null
    ELSE LET parts == Split(ref, 1, 1)
             full == parts[Len(parts)]
             short == IF Includes(full, "___") /\ AfterPrefix(full, 1, 1) # ""
                      THEN AfterPrefix(full, 1, 1) ELSE full
         IN [full |-> full, short |-> short]

ExcludedNamesNever(names, excluded) == FALSE

ExcludedNames(names, excluded) ==
    names # Null /\ (names.full \in excluded \/ names.short \in excluded)

RECURSIVE WalkAndEnqueue(_, _, _, _)
WalkAndEnqueue(node, sort, st, excluded) ==
    IF sort = "string" THEN st
    ELSE LET keys == IF sort = "array" THEN [i \in 1..Len(node) |-> i] ELSE Keys(node)
             SortOf(k) == IF sort = "array" THEN "object"
                          ELSE IF k \in StringValuedKeys THEN "string"
                          ELSE IF k \in ArrayKeys THEN "array"
                          ELSE "object"
             RECURSIVE Loop(_, _)
             Loop(i, s) ==
                 IF i > Len(keys) THEN s
                 ELSE LET item == node[keys[i]]
                          srt == SortOf(keys[i])
                          hasRef == srt = "object" /\ Has(item, "$ref")
                          matched ==
                              \/ /\ hasRef
                                 /\ item["$ref"] \notin s.visited
                                 /\ StartsWith(item["$ref"], ComponentsPrefix)
                              \/ srt = "string" /\ StartsWith(item, ComponentsPrefix)
                          ref == IF hasRef THEN item["$ref"] ELSE item
                      IN IF matched /\ ExcludedNames(getSchemaNames(ref), excluded)
                         THEN Loop(i + 1, s)
                         ELSE Loop(i + 1,
                                   WalkAndEnqueue(item, srt,
                                       IF matched
                                       THEN [queue |-> Append(s.queue, ref),
                                             visited |-> s.visited \cup {ref}]
                                       ELSE s,
                                       excluded))
         IN Loop(1, st)

traverse_and_enqueue(node, pending, visited, excluded) ==
    WalkAndEnqueue(node, "object", [queue |-> pending, visited |-> visited], excluded)

(* operationId.replace(/\.\d+$/, '')                                       *)
DecimalDigits == "0123456789"

IsDigit(c) == \E j \in 1..Len(DecimalDigits) : SubSeq(DecimalDigits, j, j) = c

RECURSIVE TrailingDigits(_, _)
TrailingDigits(str, i) ==
    IF i >= 1 /\ IsDigit(SubSeq(str, i, i)) THEN 1 + TrailingDigits(str, i - 1) ELSE 0

StripNumericSuffix(str) ==
    LET n == TrailingDigits(str, Len(str))
    IN IF n > 0 /\ Len(str) > n /\ SubSeq(str, Len(str) - n, Len(str) - n) = "."
       THEN SubSeq(str, 1, Len(str) - n - 1)
       ELSE str

MethodPriority == <<"get", "post", "put", "delete", "head">>

(* One {path: {method: operation}} entry per operation with a group, in    *)
(* document order.                                                         *)
GroupEntries(paths) ==
    LET ps == Keys(paths)
        RECURSIVE Methods(_, _)
        Methods(path, i) ==
            LET ms == Keys(paths[path]) IN
            IF i > Len(ms) THEN <<>>
            ELSE (IF Has(paths[path][ms[i]], "x-operation-group")
                  THEN <<[path |-> path, method |-> ms[i], operation |-> paths[path][ms[i]]]>>
                  ELSE <<>>) \o Methods(path, i + 1)
        RECURSIVE From(_)
        From(i) == IF i > Len(ps) THEN <<>> ELSE Methods(ps[i], 1) \o From(i + 1)
    IN From(1)

RECURSIVE MaxParameters(_, _, _, _)
MaxParameters(entries, i, max, best) ==
    IF i > Len(entries) THEN best
    ELSE IF Has(entries[i].operation, "parameters")
            /\ Len(entries[i].operation["parameters"]) > max
         THEN MaxParameters(entries, i + 1, Len(entries[i].operation["parameters"]), i)
         ELSE MaxParameters(entries, i + 1, max, best)

filter_by_max_parameters(paths) ==
    LET entries == GroupEntries(paths)
        Group(e) == e.operation["x-operation-group"]
        firsts == SelectSeq([i \in DOMAIN entries |-> i],
                            LAMBDA i : \A j \in 1..(i - 1) : Group(entries[j]) # Group(entries[i]))
        RECURSIVE From(_, _)
        From(g, new_paths) ==
            IF g > Len(firsts) THEN new_paths
            ELSE LET operations == SelectSeq(entries,
                                       LAMBDA e : Group(e) = Group(entries[firsts[g]]))
                     best == MaxParameters(operations, 1, -1, 0)
                 IN IF best = 0 THEN From(g + 1, new_paths)
                    ELSE LET e == operations[best]
                         IN IF (\E m \in DOMAIN MethodPriority : MethodPriority[m] = e.method)
                               /\ Has(e.operation, "operationId")
                            THEN From(g + 1,
                                     Put(new_paths, e.path,
                                         Put(IF Has(new_paths, e.path)
                                             THEN new_paths[e.path] ELSE <<>>,
                                             e.method,
                                             [e.operation EXCEPT !["operationId"] =
                                                 StripNumericSuffix(@)])))
                            ELSE From(g + 1, new_paths)
    IN From(1, <<>>)

EmptySpec ==
    [paths |-> <<>>,
     components |-> [parameters |-> <<>>, requestBodies |-> <<>>,
                     responses |-> <<>>, schemas |-> <<>>]]

RECURSIVE KeepPaths(_, _, _, _)
KeepPaths(spec, paths_to_keep, i, kept) ==
    IF i > Len(paths_to_keep) THEN kept
    ELSE KeepPaths(spec, paths_to_keep, i + 1,
                   IF Has(spec.paths, paths_to_keep[i])
                   THEN Put(kept, paths_to_keep[i], spec.paths[paths_to_keep[i]])
                   ELSE kept)

(* The inputs: components that refer to each other, cyclically too, to a   *)
(* missing component and to excluded ones; paths in one or two groups.     *)
ParameterRef(n) == "$ref" :> (ComponentsPrefix \o "parameters/" \o n)

Operation(group, id, parameters, body) ==
    [operationId |-> id, parameters |-> parameters, responses |-> [ok |-> body]]
        @@ ("x-operation-group" :> group)

FilterPaths ==
    { ("/a" :> [get |-> Operation("search", "search.0", <<ParameterRef("P")>>, Ref("A"))])
        @@ ("/b" :> [post |-> b]) :
        b \in { Operation("search", "search.1", <<ParameterRef("P"), ParameterRef("Q")>>, Ref("C")),
                Operation("count", "count", <<>>, Ref("C")),
                Del(Operation("count", "count", <<>>, Ref("C")), {"x-operation-group"}),
                Del(Operation("count", "count", <<>>, Ref("B")), {"parameters"}) } }

FilterSchemas ==
    { [A |-> a, B |-> b, C |-> c] @@ ("ns___D" :> d) :
        a \in { String, Ref("B"),
                [type |-> "object", properties |-> [x |-> Ref("B"), y |-> Ref("C")]],
                OneOf(<<Ref("A"), Ref("B")>>) },
        b \in { String, Ref("A"), Ref("ns___D"), Ref("Missing") },
        c \in { String, Arr(Ref("A")) },
        d \in { String, Ref("C") } }

FilterSpecs ==
    { [paths |-> p,
       components |-> [schemas |-> ss,
                       parameters |-> [P |-> [description |-> "p", schema |-> Ref("B")],
                                       Q |-> [description |-> "q", schema |-> String]]]] :
        p \in FilterPaths, ss \in FilterSchemas }

PathsToKeep == { <<"/a">>, <<"/a", "/b">>, <<"/b", "/missing">> }

ExclusionLists == { {}, {"B"}, {"D"} }

InitFilter ==
    /\ input = EmptySpec
    /\ doc = EmptySpec
    /\ first = EmptySpec
    /\ pc = "constructed"
    /\ queue = <<>>
    /\ run = 0
    /\ visit = {}
    /\ stack = <<>>
    /\ call \in { [paths_to_keep |-> <<>>, excluded |-> x] : x \in ExclusionLists }
    /\ hooked = <<>>

(* filter_spec(spec, paths_to_keep) up to the worklist loop.               *)
FilterSpecEnter ==
    /\ pc = "constructed"
    /\ \E spec \in FilterSpecs, paths_to_keep \in PathsToKeep :
          LET paths == filter_by_max_parameters(KeepPaths(spec, paths_to_keep, 1, doc.paths))
              out == traverse_and_enqueue(paths, <<>>, {}, call.excluded)
          IN /\ input' = spec
             /\ call' = [call EXCEPT !.paths_to_keep = paths_to_keep]
             /\ doc' = [doc EXCEPT !.paths = paths]
             /\ queue' = out.queue
             /\ visit' = out.visited
    /\ pc' = "loop"
    /\ UNCHANGED <<first, run, stack, hooked>>

(* One iteration of `while (queue.length > 0)`.                            *)
FilterSpecDequeue ==
    /\ pc = "loop"
    /\ queue # <<>>
    /\ LET ref_str == Head(queue)
           parts == Split(ref_str, 1, 1)
           sub_component == parts[3]
           key == parts[4]
           components == IF Has(doc.components, sub_component) THEN doc.components
                         ELSE Put(doc.components, sub_component, <<>>)
       IN IF ref_str = "" \/ Len(parts) # 4
          THEN /\ queue' = Tail(queue)
               /\ UNCHANGED <<doc, visit>>
          ELSE IF ~Has(components[sub_component], key)
                  /\ Has(input.components, sub_component)
                  /\ Has(input.components[sub_component], key)
          THEN LET out == traverse_and_enqueue(input.components[sub_component][key],
                                               Tail(queue), visit, call.excluded)
               IN /\ doc' = [doc EXCEPT !.components =
                                Put(components, sub_component,
                                    Put(components[sub_component], key,
                                        input.components[sub_component][key]))]
                  /\ queue' = out.queue
                  /\ visit' = out.visited
          ELSE /\ doc' = [doc EXCEPT !.components = components]
               /\ queue' = Tail(queue)
               /\ visit' = visit
    /\ UNCHANGED <<input, first, pc, run, stack, call, hooked>>

FilterSpecReturn ==
    /\ pc = "loop"
    /\ queue = <<>>
    /\ pc' = "returned"
    /\ UNCHANGED <<doc, input, first, queue, run, visit, stack, call, hooked>>

NextFilter ==
    \/ FilterSpecEnter
    \/ FilterSpecDequeue
    \/ FilterSpecReturn

SpecFilter == InitFilter /\ [][NextFilter]_vars

(* The '#/components/...' strings in a node, wherever they stand.          *)
RECURSIVE RefStrings(_, _)
RefStrings(node, sort) ==
    IF sort = "string"
    THEN IF StartsWith(node, ComponentsPrefix) THEN {node} ELSE {}
    ELSE IF sort = "array"
    THEN UNION { RefStrings(node[i], "object") : i \in 1..Len(node) }
    ELSE UNION { RefStrings(node[k],
                            IF k \in StringValuedKeys THEN "string"
                            ELSE IF k \in ArrayKeys THEN "array" ELSE "object") :
                   k \in DOMAIN node }

ExistingComponent(ref) ==
    \E sub \in DOMAIN input.components :
        \E key \in DOMAIN input.components[sub] :
            ref = ComponentsPrefix \o sub \o "/" \o key

ComponentAt(ref) ==
    LET sub == CHOOSE sub \in DOMAIN input.components :
                   \E key \in DOMAIN input.components[sub] :
                       ref = ComponentsPrefix \o sub \o "/" \o key
        key == CHOOSE key \in DOMAIN input.components[sub] :
                   ref = ComponentsPrefix \o sub \o "/" \o key
    IN input.components[sub][key]

ExcludedSchema(ref) ==
    \E x \in call.excluded :
        \/ ref = RefPrefix \o x
        \/ /\ StartsWith(ref, RefPrefix)
           /\ Len(ref) >= Len(x) + 3
           /\ SubSeq(ref, Len(ref) - Len(x) - 2, Len(ref)) = "___" \o x

RECURSIVE ReferenceClosure(_)
ReferenceClosure(refs) ==
    LET more == refs \cup
                { r \in UNION { RefStrings(ComponentAt(q), "object") :
                                  q \in { q \in refs : ExistingComponent(q) } } :
                    ~ExcludedSchema(r) }
    IN IF more = refs THEN refs ELSE ReferenceClosure(more)

ReachableComponents ==
    { r \in ReferenceClosure({ r \in RefStrings(doc.paths, "object") : ~ExcludedSchema(r) }) :
        ExistingComponent(r) }

OutputComponents ==
    UNION { { ComponentsPrefix \o sub \o "/" \o key : key \in DOMAIN doc.components[sub] } :
              sub \in DOMAIN doc.components }

(* More than the walk of one component of FilterSpecs queues.              *)
MaxQueued == 5

(* What is left of the worklist loop: the queued strings, and MaxQueued    *)
(* for every component not copied yet.                                     *)
PendingWork ==
    LET components ==
            UNION { { <<sub, key>> : key \in DOMAIN input.components[sub] } :
                      sub \in DOMAIN input.components }
        left == { c \in components :
                    ~(Has(doc.components, c[1]) /\ Has(doc.components[c[1]], c[2])) }
    IN Len(queue) + MaxQueued * Cardinality(left)

(***************************************************************************)
(* C29: when filter_spec returns, the components of the output are exactly *)
(* the components of the input reachable from the retained paths by chains *)
(* of '#/components/...' references that do not pass through an excluded   *)
(* schema, each as it is in the input; and the worklist loop terminates,   *)
(* also when components refer to each other cyclically: every iteration    *)
(* leaves strictly less work.                                              *)
(***************************************************************************)
C29_FilterIsReferenceClosure ==
    /\ [](pc = "returned" =>
            /\ OutputComponents = ReachableComponents
            /\ \A sub \in DOMAIN doc.components :
                  \A key \in DOMAIN doc.components[sub] :
                      doc.components[sub][key] = input.components[sub][key])
    /\ [][ pc = "loop" =>
             \/ pc' = "returned" /\ queue = <<>>
             \/ pc' = "loop" /\ PendingWork' < PendingWork ]_vars

(* A and B refer to each other, C is not referred to: A, B and parameter P *)
(* are kept, C is not.                                                     *)
C29_Witness ==
    /\ pc = "returned"
    /\ call.excluded = {}
    /\ input.components.schemas["A"] = Ref("B")
    /\ input.components.schemas["B"] = Ref("A")
    /\ DOMAIN doc.paths = {"/a"}
    /\ DOMAIN doc.components.schemas = {"A", "B"}
    /\ DOMAIN doc.components.parameters = {"P"}

(***************************************************************************)
(* VersionProcessor: process(currentVersion) deletes the items that        *)
(* #exclude_per_semver excludes.  Versions are the strings of the          *)
(* document; semver.coerce reads up to three numeric components of a       *)
(* marker, semver.satisfies wants the target version in full               *)
(* major.minor.patch form and is false for any other.                      *)
(***************************************************************************)
RECURSIVE SplitVersion(_, _, _)
SplitVersion(str, i, start) ==
    IF i > Len(str) THEN <<SubSeq(str, start, Len(str))>>
    ELSE IF SubSeq(str, i, i) = "."
         THEN <<SubSeq(str, start, i - 1)>> \o SplitVersion(str, i + 1, i + 1)
         ELSE SplitVersion(str, i + 1, start)

RECURSIVE ParseNumber(_, _)
ParseNumber(str, n) ==
    IF n = 0 THEN 0
    ELSE 10 * ParseNumber(str, n - 1)
           + (CHOOSE d \in 0..9 : SubSeq(DecimalDigits, d + 1, d + 1) = SubSeq(str, n, n))

coerce(obj, key) ==
    IF ~Has(obj, key) THEN Null
    ELSE LET parts == SplitVersion(obj[key], 1, 1)
             Part(i) == IF i <= Len(parts) THEN ParseNumber(parts[i], Len(parts[i])) ELSE 0
         IN [major |-> Part(1), minor |-> Part(2), patch |-> Part(3)]

ValidVersion(version) == Len(SplitVersion(version, 1, 1)) = 3

compare(a, b) ==
    IF a.major # b.major THEN (IF a.major < b.major THEN -1 ELSE 1)
    ELSE IF a.minor # b.minor THEN (IF a.minor < b.minor THEN -1 ELSE 1)
    ELSE IF a.patch # b.patch THEN (IF a.patch < b.patch THEN -1 ELSE 1)
    ELSE 0

satisfiesGreaterOrEqual(version, bound) ==
    ValidVersion(version) /\ compare(coerce([v |-> version], "v"), bound) >= 0

satisfiesLessThanOrEqual(version, bound) ==
    ValidVersion(version) /\ compare(coerce([v |-> version], "v"), bound) <= 0

satisfiesLessThan(version, bound) ==
    ValidVersion(version) /\ compare(coerce([v |-> version], "v"), bound) < 0

exclude_per_semver(obj, target_version) ==
    LET x_version_added == coerce(obj, "x-version-added")
        x_version_deprecated == coerce(obj, "x-version-deprecated")
        x_version_removed == coerce(obj, "x-version-removed")
    IN IF x_version_added # Null
          /\ ~satisfiesGreaterOrEqual(target_version, x_version_added) THEN TRUE
       ELSE IF x_version_deprecated # Null
               /\ ~satisfiesLessThan(target_version, x_version_deprecated) THEN TRUE
       ELSE IF x_version_removed # Null
               /\ ~satisfiesLessThan(target_version, x_version_removed) THEN TRUE
       ELSE FALSE

(* deleteMatchingKeys on a map of items, and on the `properties` of the    *)
(* items it keeps.                                                         *)
RECURSIVE deleteMatchingKeys(_, _)
deleteMatchingKeys(items, target_version) ==
    [k \in { k \in DOMAIN items : ~exclude_per_semver(items[k], target_version) } |->
        IF Has(items[k], "properties")
        THEN [items[k] EXCEPT !["properties"] = deleteMatchingKeys(@, target_version)]
        ELSE items[k]]

MarkerVersions == {"1.0", "2.0.0", "2.1", "2.1.1"}

TargetVersions == {"1.0.0", "2.0.0", "2.1.0", "2.1.1", "3.0.0", "2.1"}

Marked(key, versions) == {<<>>} \cup { key :> v : v \in versions }

VersionedItems ==
    { ObjectAssign(ObjectAssign(ObjectAssign(String, a), d), r) :
        a \in Marked("x-version-added", MarkerVersions),
        d \in Marked("x-version-deprecated", MarkerVersions),
        r \in Marked("x-version-removed", MarkerVersions) }

VersionedDocs ==
    { [a |-> i, b |-> [type |-> "object", properties |-> [c |-> j, d |-> String]]] :
        i \in VersionedItems,
        j \in { ObjectAssign(String, m) :
                  m \in Marked("x-version-added", {"2.1"})
                        \cup Marked("x-version-removed", {"2.1"}) } }

InitVersion ==
    /\ doc \in VersionedDocs
    /\ input = doc
    /\ first = doc
    /\ pc = "constructed"
    /\ queue = <<>>
    /\ run = 0
    /\ visit = {}
    /\ stack = <<>>
    /\ call = [target_version |-> ""]
    /\ hooked = <<>>

Process ==
    /\ pc = "constructed"
    /\ \E currentVersion \in TargetVersions :
          /\ call' = [target_version |-> currentVersion]
          /\ doc' = deleteMatchingKeys(doc, currentVersion)
    /\ pc' = "processed"
    /\ UNCHANGED <<input, first, queue, run, visit, stack, hooked>>

NextVersion == Process

SpecVersion == InitVersion /\ [][NextVersion]_vars

(* The items of the input with the key they stand under, and whether the   *)
(* output still has them.                                                  *)
ItemA == input["a"]

ItemC == input["b"]["properties"]["c"]

KeptA == Has(doc, "a") /\ doc["a"] = ItemA

KeptC == Has(doc, "b") /\ Has(doc["b"]["properties"], "c") /\ doc["b"]["properties"]["c"] = ItemC

Target == coerce(call, "target_version")

Earlier(a, b) ==
    \/ a.major < b.major
    \/ a.major = b.major /\ a.minor < b.minor
    \/ a.major = b.major /\ a.minor = b.minor /\ a.patch < b.patch

AddedLater(item) ==
    Has(item, "x-version-added") /\ Earlier(Target, coerce(item, "x-version-added"))

DeprecatedByTarget(item) ==
    Has(item, "x-version-deprecated") /\ ~Earlier(Target, coerce(item, "x-version-deprecated"))

RemovedBefore(item) ==
    Has(item, "x-version-removed") /\ Earlier(coerce(item, "x-version-removed"), Target)

RemovedByTarget(item) ==
    Has(item, "x-version-removed") /\ ~Earlier(Target, coerce(item, "x-version-removed"))

Unmarked(item) ==
    DOMAIN item \cap {"x-version-added", "x-version-deprecated", "x-version-removed"} = {}

====
